---- MODULE Spec2Model ----
(***************************************************************************)
(* Model of the research assistant's core:                                 *)
(*   - DeepResearchOrchestrator (src/src/core/orchestrator.ts): the        *)
(*     budget-governed Search-Read-Reason loop of one research session,    *)
(*     cut into the atomic segments the event loop runs between awaits;    *)
(*   - KnowledgeManager (src/unnamed/part_003): integrateDocument calls    *)
(*     that run concurrently on one knowledge graph.                       *)
(* Numbers that the code keeps in [0,1] (confidence, credibility,          *)
(* priority) are kept in tenths: 0.7 is 7, 0.8 is 8.                       *)
(* The retrieval provider, the content extractor and the report generator  *)
(* are the injected collaborators of the orchestrator: how many sources a  *)
(* search returns, their credibility, how long the call takes and whether  *)
(* a call throws are choices of the environment; the titles, contents and  *)
(* ids are built as the code builds them.                                  *)
(***************************************************************************)
EXTENDS Integers, Sequences, FiniteSets, TLC

VARIABLES
    sessions,   \* DeepResearchOrchestrator.sessions : id -> ResearchSession
    task,       \* per session id: position and locals of executeResearchLoop
    events,     \* per session id and event type: the payloads emitted, in order
    thrown,     \* per session id: messages of the errors that reached the catch
    now,        \* Date.now(), in ms
    graph,      \* KnowledgeManager.knowledgeGraph: entities, relations, claims
    vectors,    \* KnowledgeManager.vectorStore.embeddings, by embedding id
    integ,      \* per integrateDocument call: its position and locals
    reply,      \* what the last call of a KnowledgeManager operation returned
    index,      \* SimpleVectorIndex.vectors of one index, in insertion order
    indexReply, \* what the last operation on that index returned
    scored,     \* the RelevanceScore the last scoreRelevance call returned
    memory,     \* MemoryArchitecture.memorySystem: shortTerm.items, longTerm.storage,
                \* episodic.sessions, and the number of the next item of the callers
    memoryReply, \* what the last call on the MemoryArchitecture returned
    called,     \* the last stopSession or getSession call of a caller that looks at
                \* what the call returns, and the number of such calls so far
    retrieval   \* one RetrievalSystem.search call: its position, the promises of its
                \* executeSearch calls and the results collected

vars == <<sessions, task, events, thrown, now, graph, vectors, integ, reply,
          index, indexReply, scored, memory, memoryReply,
          called, retrieval>>
orchVars == <<sessions, task, events, thrown>>
kmVars == <<graph, vectors, integ, reply>>
ixVars == <<index, indexReply>>
memVars == <<memory, memoryReply>>
offManagement == <<kmVars, ixVars, scored, memVars, retrieval>>
offOrchestrator == <<offManagement, called>>
offKnowledge == <<orchVars, ixVars, scored, memVars, called, retrieval>>
offIndex == <<orchVars, kmVars, now, scored, memVars, called, retrieval>>
offRelevance == <<orchVars, kmVars, now, ixVars, memVars, called, retrieval>>
offMemory == <<orchVars, kmVars, ixVars, scored, called, retrieval>>
offRetrieval == <<orchVars, kmVars, ixVars, scored, memVars, called>>

----------------------------------------------------------------------------
(* Bounds of the model *)

MaxIterationsArg == 2      \* callers pass maxIterations in 0..MaxIterationsArg
MaxApiCallsArg == 2        \* callers pass maxApiCalls in 1..MaxApiCallsArg
MaxStops == 1              \* at most this many stopSession calls take effect
MaxKnowledgeClock == 1     \* the clock moves at most this far while documents are integrated
MaxEvidence == 8           \* a claim gets evidence until it has this many items
MaxK == 2                  \* the largest k a search of the vector index asks for
MaxMemoryHours == 1        \* the clock moves at most this many hours (and ms) over the memory
MaxStores == 2             \* the callers store at most this many varied memory items
MaxOverflow == 1           \* the short-term buffer gets at most this many adds beyond its capacity
MaxEpisodes == 3           \* the callers of the episodic store use this many episode ids
MaxManagementCalls == 2    \* the callers look at the result of at most this many management calls
MaxQueries == 5            \* a search call is given at most this many queries
MaxUpserts == 2            \* an entity is stored again until it has more than this many sources

(* Program constants *)

DefaultMaxTimeMs == 300000
DefaultMaxApiCalls == 50
DefaultMaxTokens == 100000
DefaultMaxIterations == 10
TopQuestions == 3
ContentPrefixLen == 50
FollowUpThreshold == 7
DefaultConfidence == 8
QuestionPriority == 8
QuestionInfoGain == 7
GoalFacts == 5
GoalIterations == 2
SearchDelayMs == 1000
StubCredibility == 8
StubRelevance == 9
MinEntityWordLen == 2
MaxEntitiesPerDocument == 10
MinSentenceLen == 20
MaxClaimsPerDocument == 5
DefaultMaxResults == 20
VerifiedAbove == 8
FalseBelow == 3
ContradictionStrength == 3
ContradictionAbove == 7
BiasAbove == 80
CoreOverallAbove == 70
CoreSemanticAbove == 60
PeripheralAbove == 40
ImmediateAbove == 8
ConsolidateImportanceAbove == 6
ConsolidateAccessAbove == 3
ConsolidateAgeHoursAbove == 1
HourMs == 3600000
MinuteMs == 60000
RecentMinutes == 30
StrengthenStep == 1
MaxImportance == 10
ShortTermCapacity == 50
ShortTermRetention == 3600000
BytesPerItem == 1024
BatchSize == 3
BatchPauseMs == 1000

(* Inputs *)

SessionIds == {"session_1"}
StopIds == SessionIds \cup {"session_unknown"}
Queries == {"Quantum error correction codes"}
MaxTimeArgs == {500}
SourceCounts == {0, 1, 2}
CredibilityValues == {5, StubCredibility}
ErrorMessages == {"extraction failed", "synthesis failed"}

Restrict(r, K) == [k \in K |-> r[k]]

\* the options objects a caller passes: maxTime and maxIterations may be omitted
\* (the call budget is what keeps a session of the model short)
Options ==
    { Restrict(r, K \cup {"maxApiCalls"}) :
        r \in [maxTime : MaxTimeArgs, maxIterations : 0..MaxIterationsArg,
               maxApiCalls : 1..MaxApiCallsArg],
        K \in SUBSET {"maxTime", "maxIterations"} }

----------------------------------------------------------------------------
(* Strings *)

Min(a, b) == IF a < b THEN a ELSE b

UpperCase == "ABCDEFGHIJKLMNOPQRSTUVWXYZ"
LowerCase == "abcdefghijklmnopqrstuvwxyz"

UpperChars == { SubSeq(UpperCase, i, i) : i \in 1..Len(UpperCase) }
LowerOf ==
    [ c \in UpperChars |->
        LET i == CHOOSE i \in 1..Len(UpperCase) : SubSeq(UpperCase, i, i) = c
        IN SubSeq(LowerCase, i, i) ]

LowerChar(c) == IF c \in UpperChars THEN LowerOf[c] ELSE c

\* the characters lo..hi of s in lower case (halving keeps the recursion shallow)
RECURSIVE LowerRange(_, _, _)
LowerRange(s, lo, hi) ==
    IF lo > hi THEN ""
    ELSE IF lo = hi THEN LowerChar(SubSeq(s, lo, lo))
    ELSE LET mid == (lo + hi) \div 2
         IN LowerRange(s, lo, mid) \o LowerRange(s, mid + 1, hi)

\* String.prototype.toLowerCase
ToLowerCase(s) == LowerRange(s, 1, Len(s))

LowerChars == { SubSeq(LowerCase, i, i) : i \in 1..Len(LowerCase) }

\* the k-th smallest element of a set of numbers
Kth(S, k) == CHOOSE x \in S : Cardinality({ y \in S : y < x }) = k - 1

\* the maximal runs of characters of s that are not in seps, in order
Runs(s, seps) ==
    LET IsSep(i) == SubSeq(s, i, i) \in seps
        starts == { i \in 1..Len(s) : ~IsSep(i) /\ (i = 1 \/ IsSep(i - 1)) }
        EndOf(i) == CHOOSE j \in i..Len(s) :
                        /\ \A k \in i..j : ~IsSep(k)
                        /\ (j = Len(s) \/ IsSep(j + 1))
    IN [ k \in 1..Cardinality(starts) |->
           SubSeq(s, Kth(starts, k), EndOf(Kth(starts, k))) ]

\* String.prototype.trim, for blanks
Trim(s) ==
    LET solid == { i \in 1..Len(s) : SubSeq(s, i, i) # " " }
    IN IF solid = {} THEN ""
       ELSE SubSeq(s, Kth(solid, 1), Kth(solid, Cardinality(solid)))

\* Array.prototype.slice(0, n)
Slice0(seq, n) == SubSeq(seq, 1, Min(n, Len(seq)))

\* String.prototype.includes
Includes(hay, needle) ==
    \E i \in 1..(Len(hay) - Len(needle) + 1) :
        SubSeq(hay, i, i + Len(needle) - 1) = needle

\* String.prototype.substring(0, n)
Substring0(s, n) == SubSeq(s, 1, Min(n, Len(s)))

\* the elements of an array
Range(seq) == { seq[i] : i \in 1..Len(seq) }

\* Array.prototype.includes
Contains(seq, x) == \E i \in 1..Len(seq) : seq[i] = x

EventTypes == { "sessionStarted", "iterationStarted", "iterationCompleted",
                "sessionCompleted", "sessionFailed", "sessionStopped" }

\* EventEmitter.emit(type, payload), on the record of one session's events
Emit(evs, type, payload) == [ evs EXCEPT ![type] = Append(@, payload) ]

----------------------------------------------------------------------------
(* Pure helpers of the orchestrator *)

\* options.x || dflt
OrDefault(options, key, dflt) ==
    IF key \in DOMAIN options /\ options[key] # 0 THEN options[key] ELSE dflt

NewSession(id, query, options, time) ==
    [ id |-> id,
      query |-> query,
      startTime |-> time,
      budget |-> [ maxTimeMs |-> OrDefault(options, "maxTime", DefaultMaxTimeMs),
                   maxApiCalls |-> OrDefault(options, "maxApiCalls", DefaultMaxApiCalls),
                   maxTokens |-> OrDefault(options, "maxTokens", DefaultMaxTokens),
                   usedTimeMs |-> 0,
                   usedApiCalls |-> 0,
                   usedTokens |-> 0 ],
      memory |-> [ discoveredFacts |-> <<>>,
                   pendingQuestions |-> <<>>,
                   exploredQueries |-> <<>>,
                   sources |-> <<>> ],
      currentIteration |-> 0,
      maxIterations |-> OrDefault(options, "maxIterations", DefaultMaxIterations),
      status |-> "initializing" ]

\* ShouldContinueResearch with the iteration ceiling compared by > instead of >=
ShouldContinueResearch_OffByOne(session) ==
    IF session.budget.usedTimeMs >= session.budget.maxTimeMs THEN FALSE
    ELSE IF session.budget.usedApiCalls >= session.budget.maxApiCalls THEN FALSE
    ELSE IF session.budget.usedTokens >= session.budget.maxTokens THEN FALSE
    ELSE IF session.currentIteration > session.maxIterations THEN FALSE
    ELSE IF Len(session.memory.pendingQuestions) = 0 /\ session.currentIteration > 0
         THEN FALSE
    ELSE TRUE

ShouldContinueResearch(session) ==
    IF session.budget.usedTimeMs >= session.budget.maxTimeMs THEN FALSE
    ELSE IF session.budget.usedApiCalls >= session.budget.maxApiCalls THEN FALSE
    ELSE IF session.budget.usedTokens >= session.budget.maxTokens THEN FALSE
    ELSE IF session.currentIteration >= session.maxIterations THEN FALSE
    ELSE IF Len(session.memory.pendingQuestions) = 0 /\ session.currentIteration > 0
         THEN FALSE
    ELSE TRUE

\* Array.prototype.sort((a, b) => b.priority - a.priority): stable, in place
RECURSIVE InsertByPriority(_, _)
InsertByPriority(q, sorted) ==
    IF sorted = <<>> THEN <<q>>
    ELSE IF Head(sorted).priority >= q.priority
         THEN <<Head(sorted)>> \o InsertByPriority(q, Tail(sorted))
         ELSE <<q>> \o sorted

RECURSIVE SortByPriority(_)
SortByPriority(qs) ==
    IF qs = <<>> THEN <<>>
    ELSE InsertByPriority(qs[Len(qs)], SortByPriority(SubSeq(qs, 1, Len(qs) - 1)))

\* the value generateSearchQueries returns (it also leaves pendingQuestions sorted)
GenerateSearchQueries(session) ==
    LET sorted == SortByPriority(session.memory.pendingQuestions)
        top == SubSeq(sorted, 1, Min(TopQuestions, Len(sorted)))
        queries == <<session.query>> \o [i \in 1..Len(top) |-> top[i].query]
    IN SelectSeq(queries, LAMBDA q : ~Contains(session.memory.exploredQueries, q))

\* what simulateSearch resolves to, for the credibilities the provider reports
SimulateSearch(query, creds, time) ==
    [ i \in 1..Len(creds) |->
        [ id |-> <<"source", time, i>>,
          title |-> "Results for: " \o query,
          credibilityScore |-> creds[i],
          relevanceScore |-> StubRelevance ] ]

\* the fact simulateContentExtraction extracts from one source
SimulateContentExtraction(source) ==
    [ content |-> "Key insight from " \o source.title,
      confidence |-> source.credibilityScore,
      sourceId |-> source.id ]

GenerateFollowUpQuestions(session, facts) ==
    LET low == SelectSeq([i \in 1..Len(facts) |-> i],
                         LAMBDA i : facts[i].confidence < FollowUpThreshold)
    IN [ k \in 1..Len(low) |->
           [ id |-> <<"question", session.currentIteration, low[k] - 1>>,
             query |-> "What additional evidence supports: "
                       \o Substring0(facts[low[k]].content, ContentPrefixLen)
                       \o "...?",
             priority |-> QuestionPriority,
             expectedInfoGain |-> QuestionInfoGain ] ]

\* PerformReasoning with fact ids that leave out the iteration
PerformReasoning_IndexOnly(session, content) ==
    LET facts == [ i \in 1..Len(content) |->
                     [ id |-> <<"fact", 0, i - 1>>,
                       content |-> content[i].content,
                       confidence |-> IF content[i].confidence # 0
                                      THEN content[i].confidence
                                      ELSE DefaultConfidence,
                       sources |-> <<content[i].sourceId>>,
                       category |-> "core" ] ]
    IN [ facts |-> facts, newQuestions |-> GenerateFollowUpQuestions(session, facts) ]

\* the facts and newQuestions of the SearchResult (knowledgeGaps and confidence
\* are computed and never read)
PerformReasoning(session, content) ==
    LET facts == [ i \in 1..Len(content) |->
                     [ id |-> <<"fact", session.currentIteration, i - 1>>,
                       content |-> content[i].content,
                       confidence |-> IF content[i].confidence # 0
                                      THEN content[i].confidence
                                      ELSE DefaultConfidence,
                       sources |-> <<content[i].sourceId>>,
                       category |-> "core" ] ]
    IN [ facts |-> facts, newQuestions |-> GenerateFollowUpQuestions(session, facts) ]

Answered(q, facts) ==
    \E i \in 1..Len(facts) :
        Includes(ToLowerCase(facts[i].content), ToLowerCase(q.query))

\* UpdateSessionMemory without the removal of the answered questions
UpdateSessionMemory_KeepAnswered(session, result) ==
    [ session EXCEPT
        !.memory.discoveredFacts = @ \o result.facts,
        !.memory.pendingQuestions = @ \o result.newQuestions ]

UpdateSessionMemory(session, result) ==
    LET pushed == session.memory.pendingQuestions \o result.newQuestions
    IN [ session EXCEPT
           !.memory.discoveredFacts = @ \o result.facts,
           !.memory.pendingQuestions =
               SelectSeq(pushed, LAMBDA q : ~Answered(q, result.facts)) ]

EvaluateGoalCompletion(session) ==
    Len(session.memory.discoveredFacts) > GoalFacts
    /\ session.currentIteration > GoalIterations

UpdateResourceUsage(session, time) ==
    [ session EXCEPT !.budget.usedTimeMs = time - session.startTime ]

SynthesizeFindings(session, time) ==
    LET facts == session.memory.discoveredFacts
    IN [ title |-> "Research Report: " \o session.query,
         findings |-> [ c \in {"core", "peripheral", "contradictory"} |->
                          SelectSeq(facts, LAMBDA f : f.category = c) ],
         sources |-> session.memory.sources,
         metadata |-> [ sessionId |-> session.id,
                        iterations |-> session.currentIteration,
                        factsDiscovered |-> Len(facts),
                        sourcesAnalyzed |-> Len(session.memory.sources),
                        duration |-> time - session.startTime ] ]

GetSession(id) == IF id \in DOMAIN sessions THEN sessions[id] ELSE "undefined"

----------------------------------------------------------------------------
(* The research loop, one action per segment between two awaits *)

\* the positions of executeResearchLoop inside the loop body
IterationPcs == {"searching", "reading", "reasoning", "evaluated"}

IdleTask == [ pc |-> "none", options |-> << >>, searchQueries |-> <<>>, sources |-> <<>>,
              result |-> [facts |-> <<>>, newQuestions |-> <<>>],
              goalsSatisfied |-> FALSE,
              failedSearches |-> 0 ]   \* the errors executeSearch has logged

\* executeSearch from the head of its for loop: dispatch the next query, or
\* return the sources, set 'reading' and start the extraction
ContinueSearch(session, t) ==
    IF t.searchQueries # <<>>
    THEN [ session |-> [ session EXCEPT !.memory.exploredQueries =
                                            Append(@, Head(t.searchQueries)) ],
           task |-> [ t EXCEPT !.pc = "searching" ] ]
    ELSE [ session |-> [ session EXCEPT !.status = "reading" ],
           task |-> [ t EXCEPT !.pc = "reading" ] ]

\* the while condition and what follows it up to the next await
LoopHead(session, t, evs) ==
    IF ShouldContinueResearch(session)
    THEN LET s1 == [ session EXCEPT !.currentIteration = @ + 1,
                                    !.status = "searching",
                                    !.memory.pendingQuestions = SortByPriority(@) ]
             t1 == [ t EXCEPT !.searchQueries = GenerateSearchQueries(s1),
                              !.sources = <<>> ]
             r == ContinueSearch(s1, t1)
         IN [ session |-> r.session, task |-> r.task,
              events |-> Emit(evs, "iterationStarted", s1.currentIteration) ]
    ELSE [ session |-> [ session EXCEPT !.status = "synthesizing" ],
           task |-> [ t EXCEPT !.pc = "synthesizing" ],
           events |-> evs ]

\* StartResearchSession with the loop entered before the call returns
StartResearchSession_Inline(id, query, options) ==
    /\ id \notin DOMAIN sessions
    /\ LET r == LoopHead(NewSession(id, query, options, now),
                         [ task[id] EXCEPT !.options = options ],
                         Emit(events[id], "sessionStarted", query))
       IN /\ sessions' = [ i \in DOMAIN sessions \cup {id} |->
                             IF i = id THEN r.session ELSE sessions[i] ]
          /\ events' = [ events EXCEPT ![id] = r.events ]
          /\ task' = [ task EXCEPT ![id] = r.task ]
    /\ UNCHANGED <<thrown, now>>

StartResearchSession(id, query, options) ==
    /\ id \notin DOMAIN sessions
    /\ sessions' = [ i \in DOMAIN sessions \cup {id} |->
                       IF i = id THEN NewSession(id, query, options, now)
                       ELSE sessions[i] ]
    /\ events' = [ events EXCEPT ![id] = Emit(@, "sessionStarted", query) ]
    /\ task' = [ task EXCEPT ![id].pc = "scheduled", ![id].options = options ]
    /\ UNCHANGED <<thrown, now>>

\* the setImmediate callback: executeResearchLoop up to its first await
ExecuteResearchLoop(id) ==
    /\ task[id].pc = "scheduled"
    /\ LET r == LoopHead(sessions[id], task[id], events[id])
       IN /\ sessions' = [ sessions EXCEPT ![id] = r.session ]
          /\ task' = [ task EXCEPT ![id] = r.task ]
          /\ events' = [ events EXCEPT ![id] = r.events ]
    /\ UNCHANGED <<thrown, now>>

\* simulateSearch resolves: the sources are kept, the call is counted
SearchReturns(id, creds) ==
    /\ task[id].pc = "searching"
    /\ now' = now + SearchDelayMs
    /\ LET query == Head(task[id].searchQueries)
           s1 == [ sessions[id] EXCEPT !.budget.usedApiCalls = @ + 1 ]
           t1 == [ task[id] EXCEPT
                     !.sources = @ \o SimulateSearch(query, creds, now'),
                     !.searchQueries = Tail(@) ]
           r == ContinueSearch(s1, t1)
       IN /\ sessions' = [ sessions EXCEPT ![id] = r.session ]
          /\ task' = [ task EXCEPT ![id] = r.task ]
    /\ UNCHANGED <<events, thrown>>

\* SearchFails with the call counted before the provider is awaited
SearchFails_Counted(id) ==
    /\ task[id].pc = "searching"
    /\ now' = now + SearchDelayMs
    /\ LET t1 == [ task[id] EXCEPT !.searchQueries = Tail(@),
                                   !.failedSearches = @ + 1 ]
           s1 == [ sessions[id] EXCEPT !.budget.usedApiCalls = @ + 1 ]
           r == ContinueSearch(s1, t1)
       IN /\ sessions' = [ sessions EXCEPT ![id] = r.session ]
          /\ task' = [ task EXCEPT ![id] = r.task ]
    /\ UNCHANGED <<events, thrown>>

\* simulateSearch rejects: executeSearch logs the error and goes on
SearchFails(id) ==
    /\ task[id].pc = "searching"
    /\ now' = now + SearchDelayMs
    /\ LET t1 == [ task[id] EXCEPT !.searchQueries = Tail(@),
                                   !.failedSearches = @ + 1 ]
           r == ContinueSearch(sessions[id], t1)
       IN /\ sessions' = [ sessions EXCEPT ![id] = r.session ]
          /\ task' = [ task EXCEPT ![id] = r.task ]
    /\ UNCHANGED <<events, thrown>>

\* CatchError with the error swallowed: the session is reported as completed
CatchError_Swallow(id, message) ==
    /\ sessions' = [ sessions EXCEPT ![id].status = "completed" ]
    /\ events' = [ events EXCEPT ![id] = Emit(@, "sessionCompleted", message) ]
    /\ thrown' = [ thrown EXCEPT ![id] = Append(@, message) ]
    /\ task' = [ task EXCEPT ![id].pc = "done" ]

\* the catch block of executeResearchLoop
CatchError(id, message) ==
    /\ sessions' = [ sessions EXCEPT ![id].status = "failed" ]
    /\ events' = [ events EXCEPT ![id] = Emit(@, "sessionFailed", message) ]
    /\ thrown' = [ thrown EXCEPT ![id] = Append(@, message) ]
    /\ task' = [ task EXCEPT ![id].pc = "done" ]

\* extractAndProcessContent resolves; 'reasoning' is set and performReasoning runs
ExtractAndReason(id) ==
    /\ task[id].pc = "reading"
    /\ LET src == task[id].sources
           content == [ i \in 1..Len(src) |-> SimulateContentExtraction(src[i]) ]
           s1 == [ sessions[id] EXCEPT !.status = "reasoning" ]
       IN /\ sessions' = [ sessions EXCEPT ![id] = s1 ]
          /\ task' = [ task EXCEPT ![id].pc = "reasoning",
                                   ![id].result = PerformReasoning(s1, content) ]
    /\ UNCHANGED <<events, thrown, now>>

\* the extraction of one of the sources throws: nothing catches it before the loop's catch
ExtractionThrows(id, message) ==
    /\ task[id].pc = "reading"
    /\ task[id].sources # <<>>
    /\ CatchError(id, message)
    /\ UNCHANGED now

\* performReasoning resolved: updateSessionMemory, then evaluateGoalCompletion
UpdateMemory(id) ==
    /\ task[id].pc = "reasoning"
    /\ LET s1 == UpdateSessionMemory(sessions[id], task[id].result)
       IN /\ sessions' = [ sessions EXCEPT ![id] = s1 ]
          /\ task' = [ task EXCEPT ![id].pc = "evaluated",
                                   ![id].goalsSatisfied = EvaluateGoalCompletion(s1) ]
    /\ UNCHANGED <<events, thrown, now>>

\* EndIteration without the break on satisfied goals
EndIteration_NoBreak(id) ==
    /\ task[id].pc = "evaluated"
    /\ LET s1 == UpdateResourceUsage(sessions[id], now)
           evs == Emit(events[id], "iterationCompleted",
                       [ iteration |-> s1.currentIteration,
                         factsDiscovered |-> Len(task[id].result.facts),
                         newQuestions |-> Len(task[id].result.newQuestions) ])
           r == LoopHead(s1, task[id], evs)
       IN /\ sessions' = [ sessions EXCEPT ![id] = r.session ]
          /\ task' = [ task EXCEPT ![id] = r.task ]
          /\ events' = [ events EXCEPT ![id] = r.events ]
    /\ UNCHANGED <<thrown, now>>

\* the end of the loop body: break, or account the time, report the iteration and
\* re-evaluate the while condition
EndIteration(id) ==
    /\ task[id].pc = "evaluated"
    /\ IF task[id].goalsSatisfied
       THEN /\ sessions' = [ sessions EXCEPT ![id].status = "synthesizing" ]
            /\ task' = [ task EXCEPT ![id].pc = "synthesizing" ]
            /\ UNCHANGED events
       ELSE LET s1 == UpdateResourceUsage(sessions[id], now)
                evs == Emit(events[id], "iterationCompleted",
                            [ iteration |-> s1.currentIteration,
                              factsDiscovered |-> Len(task[id].result.facts),
                              newQuestions |-> Len(task[id].result.newQuestions) ])
                r == LoopHead(s1, task[id], evs)
            IN /\ sessions' = [ sessions EXCEPT ![id] = r.session ]
               /\ task' = [ task EXCEPT ![id] = r.task ]
               /\ events' = [ events EXCEPT ![id] = r.events ]
    /\ UNCHANGED <<thrown, now>>

\* synthesizeFindings resolved
CompleteSession(id) ==
    /\ task[id].pc = "synthesizing"
    /\ sessions' = [ sessions EXCEPT ![id].status = "completed" ]
    /\ events' = [ events EXCEPT ![id] =
                     Emit(@, "sessionCompleted", SynthesizeFindings(sessions[id], now)) ]
    /\ task' = [ task EXCEPT ![id].pc = "done" ]
    /\ UNCHANGED <<thrown, now>>

\* synthesizeFindings rejected
SynthesisThrows(id, message) ==
    /\ task[id].pc = "synthesizing"
    /\ CatchError(id, message)
    /\ UNCHANGED now

\* Stoppable without the test of the status
Stoppable_AnyStatus(id) ==
    /\ id \in DOMAIN sessions

\* whether stopSession(id) finds a session it may stop
Stoppable(id) ==
    /\ id \in DOMAIN sessions
    /\ sessions[id].status # "completed"
    /\ sessions[id].status # "failed"

\* (the payload of sessionStopped is {sessionId}; the model also notes in it where
\* the loop was when the call came)
StopSession(id) ==
    /\ id \in SessionIds => Len(events[id]["sessionStopped"]) < MaxStops
    /\ IF Stoppable(id)
       THEN /\ sessions' = [ sessions EXCEPT ![id].status = "completed" ]
            /\ events' = [ events EXCEPT ![id] =
                             Emit(@, "sessionStopped",
                                  [ sessionId |-> id,
                                    iteration |-> sessions[id].currentIteration,
                                    midIteration |-> task[id].pc \in IterationPcs ]) ]
       ELSE UNCHANGED <<sessions, events>>
    /\ UNCHANGED <<task, thrown, now>>

\* the wall clock reaches the session's time ceiling while a search is still in flight
DeadlinePasses(id) ==
    /\ task[id].pc = "searching"
    /\ now < sessions[id].startTime + sessions[id].budget.maxTimeMs
    /\ now' = sessions[id].startTime + sessions[id].budget.maxTimeMs
    /\ UNCHANGED <<sessions, task, events, thrown>>

\* stopSession(id) of a caller that looks at the value returned
StopSessionCall(id) ==
    /\ called.n < MaxManagementCalls
    /\ StopSession(id)
    /\ called' = [ op |-> "stopSession", id |-> id, returned |-> Stoppable(id),
                   n |-> called.n + 1 ]

\* getSession(id): the session, or nothing for undefined
GetSessionCall(id) ==
    /\ called.n < MaxManagementCalls
    /\ called' = [ op |-> "getSession", id |-> id,
                   session |-> IF id \in DOMAIN sessions THEN <<sessions[id]>> ELSE <<>>,
                   n |-> called.n + 1 ]
    /\ UNCHANGED <<sessions, task, events, thrown, now>>

----------------------------------------------------------------------------
(* KnowledgeManager *)

Calls == {"call_1", "call_2"}

\* the documents handed to integrateDocument
Documents ==
    { [ id |-> "doc_1", title |-> "Launch report",
        content |-> "Acme builds reusable rockets. The Rockets fly.",
        contentQuality |-> 9 ],
      [ id |-> "doc_2", title |-> "Market note",
        content |-> "Investors say that Acme keeps growing fast!",
        contentQuality |-> 0 ] }

EntityStopWords == {"The", "This", "That", "And", "Or", "But"}

\* a confidence num/den in lowest terms (tenths would not hold a weighted average)
RECURSIVE Gcd(_, _)
Gcd(a, b) == IF b = 0 THEN a ELSE Gcd(b, a % b)
Ratio(num, den) == [ num |-> num \div Gcd(num, den), den |-> den \div Gcd(num, den) ]

\* EntityExtractor.extract
ExtractEntities(document, time) ==
    LET words == Runs(document.content, {" "})
        capitalized == SelectSeq(words, LAMBDA w :
                           /\ Len(w) > MinEntityWordLen
                           /\ SubSeq(w, 1, 1) \notin LowerChars
                           /\ w \notin EntityStopWords)
        kept == Slice0(capitalized, MaxEntitiesPerDocument)
    IN [ i \in 1..Len(kept) |->
           [ id |-> <<"entity", ToLowerCase(kept[i]), time>>,
             type |-> "concept",
             name |-> kept[i],
             description |-> "Entity extracted from document: " \o kept[i],
             properties |-> << >>,
             confidence |-> Ratio(6, 10),
             sources |-> <<document.id>>,
             created |-> time,
             lastUpdated |-> time ] ]

\* RelationExtractor.extract
ExtractRelations(document, entities, time) ==
    [ i \in 1..(Len(entities) - 1) |->
        [ id |-> <<"rel", entities[i].id, entities[i + 1].id>>,
          sourceEntityId |-> entities[i].id,
          targetEntityId |-> entities[i + 1].id,
          relationType |-> "relates_to",
          strength |-> 50,       \* in hundredths
          confidence |-> 6,
          evidence |-> <<document.id>>,
          created |-> time ] ]

\* ClaimExtractor.extract (the random part of a claim id is the call and the index)
ExtractClaims(document, entities, time, call) ==
    LET sentences == SelectSeq(Runs(document.content, {".", "!", "?"}),
                               LAMBDA t : Len(Trim(t)) > MinSentenceLen)
        kept == Slice0(sentences, MaxClaimsPerDocument)
        Related(t) == SelectSeq(entities, LAMBDA e :
                          Includes(ToLowerCase(t), ToLowerCase(e.name)))
        claiming == SelectSeq([ i \in 1..Len(kept) |-> i ],
                              LAMBDA i : Related(kept[i]) # <<>>)
    IN [ k \in 1..Len(claiming) |->
           LET t == kept[claiming[k]]
           IN [ id |-> <<"claim", time, call, claiming[k]>>,
                statement |-> Trim(t),
                entities |-> [ j \in 1..Len(Related(t)) |-> Related(t)[j].id ],
                confidence |-> Ratio(7, 10),
                evidence |-> << [ id |-> <<"evidence", time>>,
                                  documentId |-> document.id,
                                  snippet |-> Trim(t),
                                  relevanceScore |-> 8,
                                  credibilityScore |-> IF document.contentQuality # 0
                                                       THEN document.contentQuality
                                                       ELSE 5 ] >>,
                contradictions |-> <<>>,
                verificationStatus |-> "unverified" ] ]

\* the ids generateEmbeddings produces (the vectors are left to the vector index)
GenerateEmbeddings(document, entities, claims) ==
    << [ id |-> <<"doc", document.id>>, entityId |-> <<"document", document.id>>,
         type |-> "document" ] >>
    \o [ i \in 1..Len(entities) |->
           [ id |-> <<"entity", entities[i].id>>, entityId |-> entities[i].id,
             type |-> "entity" ] ]
    \o [ i \in 1..Len(claims) |->
           [ id |-> <<"claim", claims[i].id>>, entityId |-> claims[i].id,
             type |-> "claim" ] ]

\* Map.prototype.set on a map kept as the sequence of its values, in insertion order
MapSet(values, value) ==
    IF \E i \in 1..Len(values) : values[i].id = value.id
    THEN [ i \in 1..Len(values) |-> IF values[i].id = value.id THEN value ELSE values[i] ]
    ELSE Append(values, value)

\* the index in the entity map of findExistingEntity's result, 0 for undefined
FindExistingEntity(entities, entity) ==
    LET hits == { i \in 1..Len(entities) :
                    /\ ToLowerCase(entities[i].name) = ToLowerCase(entity.name)
                    /\ entities[i].type = entity.type }
    IN IF hits = {} THEN 0 ELSE Kth(hits, 1)

FindExistingRelation(relations, relation) ==
    LET hits == { i \in 1..Len(relations) :
                    /\ relations[i].sourceEntityId = relation.sourceEntityId
                    /\ relations[i].targetEntityId = relation.targetEntityId
                    /\ relations[i].relationType = relation.relationType }
    IN IF hits = {} THEN 0 ELSE Kth(hits, 1)

MergeEntities(existing, newEntity, sourceId, time) ==
    LET n == Len(existing.sources)
        c == existing.confidence
        d == newEntity.confidence
        added == DOMAIN newEntity.properties \ DOMAIN existing.properties
    IN [ existing EXCEPT
           !.properties = [ k \in DOMAIN existing.properties \cup added |->
                              IF k \in added THEN newEntity.properties[k]
                              ELSE existing.properties[k] ],
           !.confidence = Ratio(c.num * n * d.den + d.num * c.den,
                                c.den * d.den * (n + 1)),
           !.sources = Append(@, sourceId),
           !.lastUpdated = time ]

\* storeEntities: the entity map after the loop over the extracted entities
RECURSIVE StoreEntities(_, _, _, _)
StoreEntities(stored, entities, sourceDocumentId, time) ==
    IF entities = <<>> THEN stored
    ELSE LET entity == Head(entities)
             at == FindExistingEntity(stored, entity)
             next == IF at # 0
                     THEN [ stored EXCEPT ![at] =
                              MergeEntities(stored[at], entity, sourceDocumentId, time) ]
                     ELSE MapSet(stored,
                                 [ entity EXCEPT !.sources = Append(@, sourceDocumentId) ])
         IN StoreEntities(next, Tail(entities), sourceDocumentId, time)

\* storeRelations: the relation map after the loop over the extracted relations
RECURSIVE StoreRelations(_, _, _)
StoreRelations(stored, relations, sourceDocumentId) ==
    IF relations = <<>> THEN stored
    ELSE LET relation == Head(relations)
             at == FindExistingRelation(stored, relation)
             next == IF at # 0
                     THEN [ stored EXCEPT
                              ![at].strength = Min(@ + (relation.strength * 3) \div 10, 100),
                              ![at].evidence = Append(@, sourceDocumentId) ]
                     ELSE MapSet(stored, relation)
         IN StoreRelations(next, Tail(relations), sourceDocumentId)

RECURSIVE StoreClaims(_, _)
StoreClaims(stored, claims) ==
    IF claims = <<>> THEN stored
    ELSE StoreClaims(MapSet(stored, Head(claims)), Tail(claims))

\* the array storeRelations returns: each relation it was given, which is the
\* stored record itself where the relation was inserted and the extracted
\* relation where an existing one was strengthened
RECURSIVE ReturnedRelations(_, _, _)
ReturnedRelations(stored, relations, sourceDocumentId) ==
    IF relations = <<>> THEN <<>>
    ELSE LET relation == Head(relations)
             next == StoreRelations(stored, <<relation>>, sourceDocumentId)
             final == StoreRelations(stored, relations, sourceDocumentId)
         IN <<IF FindExistingRelation(stored, relation) # 0 THEN relation
              ELSE final[FindExistingRelation(final, relation)]>>
            \o ReturnedRelations(next, Tail(relations), sourceDocumentId)

IdleCall == [ pc |-> "idle", document |-> << >>, entities |-> <<>>, relations |-> <<>>,
              claims |-> <<>>, embeddings |-> <<>>, storedRelations |-> <<>> ]

\* integrateDocument up to its first await: the entity extraction
IntegrateDocument(call, document) ==
    /\ integ[call].pc = "idle"
    /\ integ' = [ integ EXCEPT ![call] =
                    [ IdleCall EXCEPT !.pc = "entities", !.document = document,
                                      !.entities = ExtractEntities(document, now) ] ]
    /\ UNCHANGED <<graph, vectors>>

IntegrateRelations(call) ==
    /\ integ[call].pc = "entities"
    /\ integ' = [ integ EXCEPT
                    ![call].pc = "relations",
                    ![call].relations =
                        ExtractRelations(integ[call].document, integ[call].entities, now) ]
    /\ UNCHANGED <<graph, vectors>>

IntegrateClaims(call) ==
    /\ integ[call].pc = "relations"
    /\ integ' = [ integ EXCEPT
                    ![call].pc = "claims",
                    ![call].claims =
                        ExtractClaims(integ[call].document, integ[call].entities, now, call) ]
    /\ UNCHANGED <<graph, vectors>>

\* generateEmbeddings resolved; storeEntities runs without an await inside
IntegrateStoreEntities(call) ==
    /\ integ[call].pc = "claims"
    /\ integ' = [ integ EXCEPT
                    ![call].pc = "entitiesStored",
                    ![call].embeddings =
                        GenerateEmbeddings(integ[call].document, integ[call].entities,
                                           integ[call].claims) ]
    /\ graph' = [ graph EXCEPT
                    !.entities = StoreEntities(@, integ[call].entities,
                                               integ[call].document.id, now) ]
    /\ UNCHANGED vectors

IntegrateStoreRelations(call) ==
    /\ integ[call].pc = "entitiesStored"
    /\ integ' = [ integ EXCEPT
                    ![call].pc = "relationsStored",
                    ![call].storedRelations =
                        ReturnedRelations(graph.relations, integ[call].relations,
                                          integ[call].document.id) ]
    /\ graph' = [ graph EXCEPT
                    !.relations = StoreRelations(@, integ[call].relations,
                                                 integ[call].document.id) ]
    /\ UNCHANGED vectors

IntegrateStoreClaims(call) ==
    /\ integ[call].pc = "relationsStored"
    /\ integ' = [ integ EXCEPT ![call].pc = "claimsStored" ]
    /\ graph' = [ graph EXCEPT !.claims = StoreClaims(@, integ[call].claims) ]
    /\ UNCHANGED vectors

\* storeEmbeddings; the conflict detection and the clustering change nothing
IntegrateStoreEmbeddings(call) ==
    /\ integ[call].pc = "claimsStored"
    /\ integ' = [ integ EXCEPT ![call].pc = "done" ]
    /\ vectors' = StoreClaims(vectors, integ[call].embeddings)
    /\ UNCHANGED graph

\* storeEntities(entities, sourceDocumentId) on its own, the entities given by
\* the caller; the reply is what was passed
StoreEntitiesCall(entities, sourceDocumentId) ==
    /\ \A i \in 1..Len(graph.entities) : Len(graph.entities[i].sources) <= MaxUpserts
    /\ graph' = [ graph EXCEPT
                    !.entities = StoreEntities(@, entities, sourceDocumentId, now) ]
    /\ reply' = [ op |-> "storeEntities", entities |-> entities,
                  sourceDocumentId |-> sourceDocumentId ]
    /\ UNCHANGED <<vectors, integ>>

\* the index of the value with the given id in a map, 0 when the key is absent
MapIndex(values, id) ==
    LET hits == { i \in 1..Len(values) : values[i].id = id }
    IN IF hits = {} THEN 0 ELSE Kth(hits, 1)

RECURSIVE SumStrength(_)
SumStrength(evidence) ==
    IF evidence = <<>> THEN 0
    ELSE Head(evidence).credibilityScore * Head(evidence).relevanceScore
         + SumStrength(Tail(evidence))

\* calculateClaimConfidence: the scores are tenths, their products hundredths
CalculateClaimConfidence(claim) ==
    LET sum == SumStrength(claim.evidence)
        n == Len(claim.evidence)
    IN IF sum > 100 * n THEN Ratio(1, 1) ELSE Ratio(sum, 100 * n)

\* ratio > tenths / 10 and ratio < tenths / 10
Above(ratio, tenths) == ratio.num * 10 > tenths * ratio.den
Below(ratio, tenths) == ratio.num * 10 < tenths * ratio.den

\* findContradictions: the number of contradictions it returns
FindContradictions(claims, claim) ==
    LET related == { i \in 1..Len(claims) :
                       /\ claims[i].id # claim.id
                       /\ \E e \in Range(claims[i].entities) :
                              e \in Range(claim.entities) }
    IN Cardinality({ i \in related : ContradictionStrength > ContradictionAbove })

UpdateKnowledgeWithEvidence(claimId, evidence) ==
    LET at == MapIndex(graph.claims, claimId)
    IN IF at = 0
       THEN /\ reply' = [ op |-> "updateKnowledgeWithEvidence", claimId |-> claimId,
                          success |-> FALSE, error |-> "Claim not found" ]
            /\ UNCHANGED <<graph, vectors, integ>>
       ELSE LET pushed == [ graph.claims[at] EXCEPT !.evidence = Append(@, evidence) ]
                newConfidence == CalculateClaimConfidence(pushed)
                status == IF /\ Above(newConfidence, VerifiedAbove)
                             /\ pushed.verificationStatus = "unverified"
                          THEN "verified"
                          ELSE IF Below(newConfidence, FalseBelow) THEN "false"
                          ELSE pushed.verificationStatus
                claim == [ pushed EXCEPT !.confidence = newConfidence,
                                         !.verificationStatus = status ]
            IN /\ Len(graph.claims[at].evidence) < MaxEvidence
               /\ graph' = [ graph EXCEPT !.claims[at] = claim ]
               /\ reply' = [ op |-> "updateKnowledgeWithEvidence", claimId |-> claimId,
                             success |-> TRUE, newConfidence |-> newConfidence,
                             verificationStatus |-> status,
                             newContradictions |->
                                 FindContradictions(graph'.claims, claim) ]
               /\ UNCHANGED <<vectors, integ>>

\* queryKnowledge: the index returns the k most similar embeddings; which ones
\* they are is decided by the embedding vectors, here by the choice of hits
QueryKnowledge(options, hits) ==
    LET k == OrDefault(options, "maxResults", DefaultMaxResults)
        relatedEntities == { i \in 1..Len(graph.entities) :
                               \E h \in hits : vectors[h].entityId = graph.entities[i].id }
    IN /\ hits \subseteq 1..Len(vectors)
       /\ Cardinality(hits) = Min(k, Len(vectors))
       /\ reply' = [ op |-> "queryKnowledge", options |-> options,
                     entities |-> { graph.entities[i] : i \in relatedEntities },
                     claims |-> {},
                     relations |-> {} ]
       /\ UNCHANGED <<graph, vectors, integ>>

----------------------------------------------------------------------------
(* SimpleVectorIndex *)

EmbeddingIds == {"emb_1", "emb_2", "emb_3"}

\* the vectors of the index and of its queries: all of one dimension, as the
\* embeddings of one vector store are
Vectors == { <<0, 0>>, <<1, 0>>, <<1, 1>>, <<-1, 0>> }

RECURSIVE Dot(_, _)
Dot(a, b) == IF a = <<>> THEN 0 ELSE Head(a) * Head(b) + Dot(Tail(a), Tail(b))

\* cosineSimilarity: the cosine dot / sqrt(norms) is kept as its two exact parts,
\* a zero magnitude gives the number 0
CosineSimilarity(a, b) ==
    IF Dot(a, a) = 0 \/ Dot(b, b) = 0 THEN [ dot |-> 0, norms |-> 1 ]
    ELSE [ dot |-> Dot(a, b), norms |-> Dot(a, a) * Dot(b, b) ]

\* the sign of x - y for two cosines: both are compared by their signed squares
Sign(n) == IF n > 0 THEN 1 ELSE IF n < 0 THEN -1 ELSE 0
CompareSimilarity(x, y) ==
    Sign(Sign(x.dot) * x.dot * x.dot * y.norms - Sign(y.dot) * y.dot * y.dot * x.norms)

\* Array.prototype.sort((a, b) => b.similarity - a.similarity): stable
RECURSIVE InsertBySimilarity(_, _)
InsertBySimilarity(r, sorted) ==
    IF sorted = <<>> THEN <<r>>
    ELSE IF CompareSimilarity(Head(sorted).similarity, r.similarity) >= 0
         THEN <<Head(sorted)>> \o InsertBySimilarity(r, Tail(sorted))
         ELSE <<r>> \o sorted

RECURSIVE SortBySimilarity(_)
SortBySimilarity(rs) ==
    IF rs = <<>> THEN <<>>
    ELSE InsertBySimilarity(rs[Len(rs)], SortBySimilarity(SubSeq(rs, 1, Len(rs) - 1)))

\* search with the slice left out
VectorSearch_NoSlice(stored, queryVector, k) ==
    SortBySimilarity([ i \in 1..Len(stored) |->
                         [ id |-> stored[i].id,
                           similarity |-> CosineSimilarity(queryVector, stored[i].vector),
                           embedding |-> stored[i] ] ])

\* SimpleVectorIndex.search
VectorSearch(stored, queryVector, k) ==
    Slice0(SortBySimilarity([ i \in 1..Len(stored) |->
                                [ id |-> stored[i].id,
                                  similarity |->
                                      CosineSimilarity(queryVector, stored[i].vector),
                                  embedding |-> stored[i] ] ]),
           k)

IndexAdd(embedding) ==
    /\ index' = MapSet(index, embedding)
    /\ indexReply' = [ op |-> "add", embedding |-> embedding ]

IndexUpdate(embedding) ==
    /\ index' = MapSet(index, embedding)
    /\ indexReply' = [ op |-> "update", embedding |-> embedding ]

\* Map.prototype.delete
IndexRemove(id) ==
    /\ index' = SelectSeq(index, LAMBDA e : e.id # id)
    /\ indexReply' = [ op |-> "remove", id |-> id,
                       result |-> \E i \in 1..Len(index) : index[i].id = id ]

IndexSearch(queryVector, k) ==
    /\ indexReply' = [ op |-> "search", queryVector |-> queryVector, k |-> k,
                       results |-> VectorSearch(index, queryVector, k) ]
    /\ UNCHANGED index

----------------------------------------------------------------------------
(* RelevanceEngine: scores in hundredths *)

\* categorizeRelevance with the bias threshold included in the upper case
CategorizeRelevance_Inclusive(overall, semantic, bias) ==
    IF bias.overall >= BiasAbove THEN "contradictory"
    ELSE IF overall > CoreOverallAbove /\ semantic > CoreSemanticAbove THEN "core"
    ELSE IF overall > PeripheralAbove THEN "peripheral"
    ELSE "irrelevant"

CategorizeRelevance(overall, semantic, bias) ==
    IF bias.overall > BiasAbove THEN "contradictory"
    ELSE IF overall > CoreOverallAbove /\ semantic > CoreSemanticAbove THEN "core"
    ELSE IF overall > PeripheralAbove THEN "peripheral"
    ELSE "irrelevant"

\* scoreRelevance: the dimensions are what the calculators returned
ScoreRelevance(overall, semantic, bias) ==
    scored' = [ overall |-> overall, semantic |-> semantic, bias |-> bias,
                category |-> CategorizeRelevance(overall, semantic, bias) ]

\* the value of 0 / 0; every comparison the code makes with it is false
NaN == 0 - 1

\* calculateTopicalRelevance: base 0.5, the two alignments (0.5 each) weighted
\* 0.3 and 0.4, the content depth min(length / 5000, 1) weighted 0.3
CalculateTopicalRelevance(document) ==
    LET depthScore == Min((document.length * 100) \div 5000, 100)
    IN  Min(50 + (50 * 30) \div 100 + (50 * 40) \div 100 + (depthScore * 30) \div 100, 100)

\* assessCoherence: 0.5 for fewer than two sentences, else what the checks add
AssessCoherence(document) ==
    IF document.sentences < 2 THEN 50 ELSE Min(50 + document.coherenceBonus, 100)

\* detectPoliticalBias: 0.1 per match, divided by the thousands of characters
DetectPoliticalBias(document) ==
    IF document.length = 0
    THEN NaN
    ELSE Min((document.politicalMatches * 10 * 1000) \div document.length, 100)

DetectCommercialBias(document) == Min(document.commercialSignals * 10, 100)

DetectDemographicBias(document) == Min(document.demographicMatches * 5, 100)

DetectConfirmationBias(document) ==
    Min(document.absoluteTerms * 10
          + (IF ~document.balanced /\ document.length > 1000 THEN 20 ELSE 0), 100)

\* detectBias: the mean of the four detectors
DetectBias(document) ==
    LET political == DetectPoliticalBias(document)
        commercial == DetectCommercialBias(document)
        demographic == DetectDemographicBias(document)
        confirmation == DetectConfirmationBias(document)
    IN  [ overall |-> IF political = NaN THEN NaN
                      ELSE (political + commercial + demographic + confirmation) \div 4,
          political |-> political,
          commercial |-> commercial,
          demographic |-> demographic,
          confirmation |-> confirmation ]

\* getRelevanceWeights, in hundredths
GetRelevanceWeights(context) ==
    [ semantic |-> 30,
      topical |-> 25,
      temporal |-> OrDefault(context.userPreferences, "recencyWeight", 15),
      credibility |-> 20,
      quality |-> 10 ]

\* calculateOverallRelevance, in ten-thousandths
CalculateOverallRelevance(scores, weights) ==
    scores.semantic * weights.semantic
      + scores.topical * weights.topical
      + scores.temporal * weights.temporal
      + scores.credibility * weights.credibility
      + scores.quality * weights.quality

\* the least number of hundredths not below x ten-thousandths: it is above a
\* whole threshold exactly when x is
HundredthsOf(x) == (x + 99) \div 100

\* scoreRelevance of a document in a context: semantic, temporal and
\* credibility are what their calculators returned; overall is in ten-thousandths
ScoreDocument(document, context, semantic, temporal, credibility) ==
    LET topical == CalculateTopicalRelevance(document)
        quality == AssessCoherence(document)
        bias == DetectBias(document)
        overall == CalculateOverallRelevance(
                       [ semantic |-> semantic, topical |-> topical,
                         temporal |-> temporal, credibility |-> credibility,
                         quality |-> quality ],
                       GetRelevanceWeights(context))
    IN  scored' = [ overall |-> overall,
                    semantic |-> semantic,
                    topical |-> topical,
                    temporal |-> temporal,
                    credibility |-> credibility,
                    quality |-> quality,
                    bias |-> bias,
                    category |-> CategorizeRelevance(HundredthsOf(overall), semantic, bias) ]

\* time passes while documents are integrated
KnowledgeTick ==
    /\ now < MaxKnowledgeClock
    /\ now' = now + 1

-----------------------------------------------------------------------------
(***************************************************************************)
(* MemoryArchitecture (src/unnamed/part_004): the short-term buffer, the   *)
(* long-term store and the episodic store.  Importance is kept in tenths.  *)
(* The long-term and episodic implementations do no I/O: every promise     *)
(* awaited inside store, consolidate and forget is already settled, so     *)
(* the continuation runs before any timer or I/O callback and a call is    *)
(* one step.  WorkingMemoryImpl.contextWindow.items is never filled, so    *)
(* isCurrentlyRelevant is false and currentFocus stays empty.              *)
(***************************************************************************)

\* Array truthiness: an array is an object, and truthy also when it is empty
Truthy(array) == TRUE

\* ShortTermMemoryImpl.add, without the shift
ShortTermAdd_NoShift(items, item) ==
    Append(items, item)

\* ShortTermMemoryImpl.add
ShortTermAdd(items, item) ==
    LET pushed == Append(items, item)
    IN IF Len(pushed) > ShortTermCapacity THEN Tail(pushed) ELSE pushed

\* ShortTermMemoryImpl.cleanup
ShortTermCleanup(items, time) ==
    SelectSeq(items, LAMBDA item : time - item.created < ShortTermRetention)

\* LongTermMemoryImpl.store
LongTermStore(storage, item) == MapSet(storage, item)

\* LongTermMemoryImpl.retrieve: the positions in the map of the items found
LongTermRetrieve(storage, query) ==
    SelectSeq([ i \in 1..Len(storage) |-> i ], LAMBDA i :
        Includes(ToLowerCase(storage[i].content), ToLowerCase(query)))

\* LongTermMemoryImpl.shouldForget
ShouldForget(item, criteria, time) ==
    LET age == time - item.created
        supplied(key) == key \in DOMAIN criteria /\ criteria[key] # 0
    IN \/ supplied("maxAge") /\ age > criteria.maxAge
       \/ supplied("minImportance") /\ item.importance < criteria.minImportance
       \/ supplied("unusedThreshold") /\ item.accessCount < criteria.unusedThreshold

\* LongTermMemoryImpl.forget: the map afterwards and the number returned
LongTermForget(storage, criteria, time) ==
    LET toRemove == SelectSeq(storage, LAMBDA item : ShouldForget(item, criteria, time))
    IN [ storage |-> SelectSeq(storage, LAMBDA item : ~ShouldForget(item, criteria, time)),
         forgotten |-> Len(toRemove) ]

\* MemoryArchitecture.shouldConsolidate
ShouldConsolidate(item, time) ==
    \/ item.importance > ConsolidateImportanceAbove
    \/ item.accessCount > ConsolidateAccessAbove
    \/ time - item.created > ConsolidateAgeHoursAbove * HourMs

\* MemoryArchitecture.strengthenMemory, on the long-term map
StrengthenMemory(storage, item) ==
    LET existing == LongTermRetrieve(storage, item.content)
    IN IF Len(existing) > 0
       THEN [ storage EXCEPT ![existing[1]] =
                [ @ EXCEPT !.importance = Min(@ + StrengthenStep, MaxImportance),
                           !.frequency = @ + 1 ] ]
       ELSE storage

\* the loop of MemoryArchitecture.consolidate over its candidates
RECURSIVE ConsolidateLoop(_, _)
ConsolidateLoop(state, candidates) ==
    IF candidates = <<>> THEN state
    ELSE LET item == Head(candidates)
         IN ConsolidateLoop(
                IF Truthy(LongTermRetrieve(state.longTerm, item.content))
                THEN [ state EXCEPT !.longTerm = StrengthenMemory(@, item),
                                    !.strengthened = @ + 1 ]
                ELSE [ state EXCEPT !.longTerm = LongTermStore(@, item),
                                    !.consolidated = @ + 1 ],
                Tail(candidates))

\* MemoryArchitecture.isRecentlyAccessed
IsRecentlyAccessed(item, time) == time - item.lastAccessed < RecentMinutes * MinuteMs

\* MemoryArchitecture.calculateMemoryEfficiency
CalculateMemoryEfficiency(items, time) ==
    IF Len(items) > 0
    THEN Ratio(Len(SelectSeq(items, LAMBDA item : IsRecentlyAccessed(item, time))), Len(items))
    ELSE Ratio(1, 1)

\* MemoryArchitecture.store; the caller numbers its items and stamps them
MemoryStore(item, immediate) ==
    LET stamped == [ id |-> memory.nextId, content |-> item.content,
                     importance |-> item.importance, accessCount |-> item.accessCount,
                     frequency |-> 0, created |-> now, lastAccessed |-> now ]
    IN /\ memory' =
            IF immediate \/ stamped.importance > ImmediateAbove
            THEN [ memory EXCEPT !.longTerm = LongTermStore(@, stamped),
                                 !.nextId = @ + 1 ]
            ELSE [ memory EXCEPT !.shortTerm = ShortTermAdd(@, stamped),
                                 !.nextId = @ + 1 ]
       /\ memoryReply' = [ op |-> "store" ]
       /\ UNCHANGED now

\* MemoryArchitecture.consolidate
MemoryConsolidate ==
    LET candidates == SelectSeq(memory.shortTerm, LAMBDA item : ShouldConsolidate(item, now))
        done == ConsolidateLoop([ longTerm |-> memory.longTerm,
                                  consolidated |-> 0, strengthened |-> 0 ], candidates)
    IN /\ memory' = [ memory EXCEPT
            !.longTerm = done.longTerm,
            !.shortTerm = SelectSeq(@, LAMBDA item : ~Contains(candidates, item)) ]
       /\ memoryReply' = [ op |-> "consolidate", consolidated |-> done.consolidated,
                           strengthened |-> done.strengthened ]
       /\ UNCHANGED now

\* MemoryArchitecture.forget
MemoryForget(criteria) ==
    LET swept == LongTermForget(memory.longTerm, criteria, now)
        kept == ShortTermCleanup(memory.shortTerm, now)
    IN /\ memory' = [ memory EXCEPT !.longTerm = swept.storage, !.shortTerm = kept ]
       /\ memoryReply' = [ op |-> "forget", criteria |-> criteria,
                           itemsForgotten |-> swept.forgotten,
                           memoryFreed |-> swept.forgotten * BytesPerItem,
                           efficiency |-> CalculateMemoryEfficiency(kept, now) ]
       /\ UNCHANGED now

\* EpisodicMemoryImpl.getSessionHistory
GetSessionHistory(episodes, sessionId) ==
    SelectSeq(episodes, LAMBDA episode : episode.sessionId = sessionId)

\* MemoryArchitecture.recordEpisode, EpisodicMemoryImpl.addEpisode
RecordEpisode(episode) ==
    /\ memory' = [ memory EXCEPT !.episodes = MapSet(@, episode) ]
    /\ memoryReply' = [ op |-> "recordEpisode" ]
    /\ UNCHANGED now

\* a caller reads the history of one session
SessionHistory(sessionId) ==
    /\ memoryReply' = [ op |-> "getSessionHistory",
                        episodes |-> GetSessionHistory(memory.episodes, sessionId) ]
    /\ UNCHANGED <<memory, now>>

\* time passes between the calls on the memory
MemoryTick(ms) ==
    /\ now + ms <= MaxMemoryHours * (HourMs + 1)
    /\ now' = now + ms
    /\ UNCHANGED <<memory, memoryReply>>

-----------------------------------------------------------------------------
(***************************************************************************)
(* RetrievalSystem.search (src/src/core/retrievalSystem.ts): one call with *)
(* the queries of one engine.  executeSearch is an async function: calling *)
(* it runs it up to its first await, which is the request to the engine,   *)
(* and returns a promise.  executeSearch catches what the engine search    *)
(* throws, so its promise is always fulfilled, with documents or with      *)
(* errors.                                                                 *)
(***************************************************************************)

IdleRetrieval == [ pc |-> "idle", promises |-> <<>>, i |-> 0, results |-> <<>> ]

\* the positions of the promises Promise.allSettled is waiting for
BatchOf(r) == { k \in 1..Len(r.promises) : r.i < k /\ k <= r.i + BatchSize }

\* the retrieval calls that have been started and have not settled
InFlight(r) == { k \in 1..Len(r.promises) : r.promises[k] = "pending" }

\* search(queries): every executeSearch call is made, then
\* executeBatchWithRateLimit awaits the first slice of the promises
RetrievalSearch(n) ==
    /\ retrieval.pc = "idle"
    /\ retrieval' = [ pc |-> IF n = 0 THEN "done" ELSE "batch",
                      promises |-> [ k \in 1..n |-> "pending" ],
                      i |-> 0, results |-> <<>> ]
    /\ UNCHANGED now

\* the engine answers or fails: the promise of one executeSearch is fulfilled
SearchSettlesWith(k, outcome) ==
    /\ k \in InFlight(retrieval)
    /\ retrieval' = [ retrieval EXCEPT !.promises[k] = outcome ]
    /\ UNCHANGED now

\* Promise.allSettled(batch) resolved: the results are kept, and the pause
\* starts when promises are left
BatchSettled ==
    /\ retrieval.pc = "batch"
    /\ BatchOf(retrieval) \cap InFlight(retrieval) = {}
    /\ LET upto == Min(retrieval.i + BatchSize, Len(retrieval.promises))
       IN retrieval' = [ retrieval EXCEPT
            !.results = @ \o [ j \in 1..(upto - retrieval.i) |->
                                 [ query |-> retrieval.i + j,
                                   outcome |-> retrieval.promises[retrieval.i + j] ] ],
            !.pc = IF retrieval.i + BatchSize < Len(retrieval.promises)
                   THEN "pause" ELSE "done" ]
    /\ UNCHANGED now

\* the timer between two batches fires: the next slice is awaited
PauseElapsed ==
    /\ retrieval.pc = "pause"
    /\ retrieval' = [ retrieval EXCEPT !.i = @ + BatchSize, !.pc = "batch" ]
    /\ now' = now + BatchPauseMs



----------------------------------------------------------------------------

\* what a search may return: some sources, of one credibility
ProviderResults ==
    { [i \in 1..n |-> c] : n \in SourceCounts, c \in CredibilityValues }

Init ==
    /\ sessions = << >>
    /\ task = [ id \in SessionIds |-> IdleTask ]
    /\ events = [ id \in SessionIds |-> [ type \in EventTypes |-> <<>> ] ]
    /\ thrown = [ id \in SessionIds |-> <<>> ]
    /\ now = 0
    /\ graph = [ entities |-> <<>>, relations |-> <<>>, claims |-> <<>> ]
    /\ vectors = <<>>
    /\ integ = [ c \in Calls |-> IdleCall ]
    /\ reply = [ op |-> "none" ]
    /\ index = <<>>
    /\ indexReply = [ op |-> "none" ]
    /\ scored = [ category |-> "none" ]
    /\ memory = [ shortTerm |-> <<>>, longTerm |-> <<>>, episodes |-> <<>>, nextId |-> 1 ]
    /\ memoryReply = [ op |-> "none" ]
    /\ called = [ op |-> "none", n |-> 0 ]
    /\ retrieval = IdleRetrieval

OrchestratorNext ==
    \/ \E id \in SessionIds, q \in Queries, o \in Options : StartResearchSession(id, q, o)
    \/ \E id \in SessionIds : ExecuteResearchLoop(id)
    \/ \E id \in SessionIds, c \in ProviderResults : SearchReturns(id, c)
    \/ \E id \in SessionIds : SearchFails(id)
    \/ \E id \in SessionIds : ExtractAndReason(id)
    \/ \E id \in SessionIds, m \in ErrorMessages : ExtractionThrows(id, m)
    \/ \E id \in SessionIds : UpdateMemory(id)
    \/ \E id \in SessionIds : EndIteration(id)
    \/ \E id \in SessionIds : CompleteSession(id)
    \/ \E id \in SessionIds, m \in ErrorMessages : SynthesisThrows(id, m)
    \/ \E id \in StopIds : StopSession(id)
    \/ \E id \in SessionIds : DeadlinePasses(id)

Next == OrchestratorNext /\ UNCHANGED offOrchestrator

Spec == Init /\ [][Next]_vars

\* the steps the orchestrator takes by itself once the awaited promise is settled;
\* whether and when the provider settles a search is not the orchestrator's to decide
LoopStep(id) ==
    \/ ExecuteResearchLoop(id)
    \/ ExtractAndReason(id)
    \/ UpdateMemory(id)
    \/ EndIteration(id)
    \/ CompleteSession(id)

FairSpec == Spec /\ \A id \in SessionIds : WF_vars(LoopStep(id) /\ UNCHANGED offOrchestrator)

\* a search that was dispatched settles: simulateSearch is a timer of one second
SearchSettles(id) ==
    \/ \E c \in ProviderResults : SearchReturns(id, c)
    \/ SearchFails(id)

\* the options of the callers of one service: the call budget alone, with one
\* iteration, with a short time ceiling
SessionOptions ==
    { [ maxApiCalls |-> 2 ],
      [ maxApiCalls |-> 2, maxIterations |-> 1 ],
      [ maxApiCalls |-> 2, maxTime |-> 500 ] }

\* the steps of the sessions started with one of the given options, with a
\* provider that answers with one of the given results
RunNext(options, results) ==
    \/ \E id \in SessionIds, q \in Queries, o \in options :
           StartResearchSession(id, q, o) /\ UNCHANGED offOrchestrator
    \/ \E id \in SessionIds : ExecuteResearchLoop(id) /\ UNCHANGED offOrchestrator
    \/ \E id \in SessionIds, c \in results :
           SearchReturns(id, c) /\ UNCHANGED offOrchestrator
    \/ \E id \in SessionIds : SearchFails(id) /\ UNCHANGED offOrchestrator
    \/ \E id \in SessionIds : ExtractAndReason(id) /\ UNCHANGED offOrchestrator
    \/ \E id \in SessionIds, m \in ErrorMessages :
           ExtractionThrows(id, m) /\ UNCHANGED offOrchestrator
    \/ \E id \in SessionIds : UpdateMemory(id) /\ UNCHANGED offOrchestrator
    \/ \E id \in SessionIds : EndIteration(id) /\ UNCHANGED offOrchestrator
    \/ \E id \in SessionIds : CompleteSession(id) /\ UNCHANGED offOrchestrator
    \/ \E id \in SessionIds, m \in ErrorMessages :
           SynthesisThrows(id, m) /\ UNCHANGED offOrchestrator
    \/ \E id \in SessionIds : DeadlinePasses(id) /\ UNCHANGED offOrchestrator

SessionNext ==
    \/ RunNext(SessionOptions, ProviderResults)
    \/ \E id \in StopIds : StopSession(id) /\ UNCHANGED offOrchestrator

\* the orchestrator of one service and its callers
SessionSpec == Init /\ [][SessionNext]_vars

\* the orchestrator with a retrieval provider that answers every call
SettlingSpec ==
    /\ SessionSpec
    /\ \A id \in SessionIds : WF_vars(LoopStep(id) /\ UNCHANGED offOrchestrator)
    /\ \A id \in SessionIds : WF_vars(SearchSettles(id) /\ UNCHANGED offOrchestrator)

\* the options of a session that may run three iterations
GoalOptions == { [ maxIterations |-> 3 ] }

\* a provider that answers with two sources, both doubtful or both credible
GoalResults == { <<5, 5>>, <<StubCredibility, StubCredibility>> }

GoalNext ==
    \/ RunNext(GoalOptions, GoalResults)
    \/ \E id \in StopIds : StopSession(id) /\ UNCHANGED offOrchestrator

\* the orchestrator with sessions long enough to satisfy their goals
GoalSpec == Init /\ [][GoalNext]_vars

\* the options of a session whose iteration ceiling is not reached when its
\* goals are satisfied
RoomOptions == { [ maxIterations |-> 4 ] }

RoomNext ==
    \/ RunNext(RoomOptions, GoalResults)
    \/ \E id \in StopIds : StopSession(id) /\ UNCHANGED offOrchestrator

\* the orchestrator with sessions that satisfy their goals within their ceilings
RoomSpec == Init /\ [][RoomNext]_vars

\* the options of a session that is over after one iteration
ManagementOptions == { [ maxApiCalls |-> 1, maxIterations |-> 1 ] }

ManagementNext ==
    \/ RunNext(ManagementOptions, ProviderResults)
    \/ \E id \in StopIds : StopSessionCall(id) /\ UNCHANGED offManagement
    \/ \E id \in StopIds : GetSessionCall(id) /\ UNCHANGED offManagement

\* the orchestrator and the callers of its session management methods
ManagementSpec == Init /\ [][ManagementNext]_vars

KnowledgeNext ==
    \/ \E c \in Calls, d \in Documents :
           IntegrateDocument(c, d) /\ UNCHANGED <<offKnowledge, now, reply>>
    \/ \E c \in Calls : IntegrateRelations(c) /\ UNCHANGED <<offKnowledge, now, reply>>
    \/ \E c \in Calls : IntegrateClaims(c) /\ UNCHANGED <<offKnowledge, now, reply>>
    \/ \E c \in Calls : IntegrateStoreEntities(c) /\ UNCHANGED <<offKnowledge, now, reply>>
    \/ \E c \in Calls : IntegrateStoreRelations(c) /\ UNCHANGED <<offKnowledge, now, reply>>
    \/ \E c \in Calls : IntegrateStoreClaims(c) /\ UNCHANGED <<offKnowledge, now, reply>>
    \/ \E c \in Calls : IntegrateStoreEmbeddings(c) /\ UNCHANGED <<offKnowledge, now, reply>>
    \/ KnowledgeTick /\ UNCHANGED <<offKnowledge, kmVars>>

\* integrateDocument calls running concurrently on one KnowledgeManager
KnowledgeSpec == Init /\ [][KnowledgeNext]_vars

Embeddings == [ id : EmbeddingIds, vector : Vectors ]

IndexNext ==
    \/ \E e \in Embeddings : IndexAdd(e) /\ UNCHANGED offIndex
    \/ \E e \in Embeddings : IndexUpdate(e) /\ UNCHANGED offIndex
    \/ \E id \in EmbeddingIds : IndexRemove(id) /\ UNCHANGED offIndex
    \/ \E v \in Vectors, k \in 0..MaxK : IndexSearch(v, k) /\ UNCHANGED offIndex

\* one SimpleVectorIndex and its callers
IndexSpec == Init /\ [][IndexNext]_vars

\* the scores around the thresholds of the categories
ScoreValues == {0, 40, 41, 60, 61, 70, 71, 80, 81, 100}

RelevanceNext ==
    \E overall \in ScoreValues, semantic \in ScoreValues, b \in ScoreValues :
        ScoreRelevance(overall, semantic, [ overall |-> b ]) /\ UNCHANGED offRelevance

\* the RelevanceEngine scoring documents
RelevanceSpec == Init /\ [][RelevanceNext]_vars

\* documents by what the scorers read of them: an empty one, a short one, a
\* long one-sided one and a heavily slanted one
ScoredDocuments ==
    { [ length |-> 0, sentences |-> 0, coherenceBonus |-> 0, politicalMatches |-> 0,
        commercialSignals |-> 0, demographicMatches |-> 0, absoluteTerms |-> 0,
        balanced |-> FALSE ],
      [ length |-> 1000, sentences |-> 8, coherenceBonus |-> 20, politicalMatches |-> 2,
        commercialSignals |-> 2, demographicMatches |-> 4, absoluteTerms |-> 2,
        balanced |-> TRUE ],
      [ length |-> 5000, sentences |-> 40, coherenceBonus |-> 50, politicalMatches |-> 0,
        commercialSignals |-> 0, demographicMatches |-> 0, absoluteTerms |-> 0,
        balanced |-> FALSE ],
      [ length |-> 2000, sentences |-> 16, coherenceBonus |-> 0, politicalMatches |-> 20,
        commercialSignals |-> 9, demographicMatches |-> 20, absoluteTerms |-> 5,
        balanced |-> FALSE ] }

\* contexts without preferences and with a recencyWeight of 0, 0.15, 0.5 and 1
ScoringContexts ==
    { [ userPreferences |-> << >> ] }
      \cup { [ userPreferences |-> [ recencyWeight |-> w ] ] : w \in {0, 15, 50, 100} }

\* what a calculator bounded by Math.min(.., 1.0) returns
CalculatorValues == {0, 50, 100}

WeightedNext ==
    \E document \in ScoredDocuments, context \in ScoringContexts,
       semantic \in CalculatorValues, temporal \in CalculatorValues,
       credibility \in CalculatorValues :
        ScoreDocument(document, context, semantic, temporal, credibility)
          /\ UNCHANGED offRelevance

\* the RelevanceEngine scoring documents under the weights of the context
WeightedSpec == Init /\ [][WeightedNext]_vars

\* the evidence and the options the callers of the store pass
EvidenceInputs ==
    { [ id |-> "evidence_strong", documentId |-> "doc_3", snippet |-> "confirmed",
        credibilityScore |-> 10, relevanceScore |-> 10 ],
      [ id |-> "evidence_weak", documentId |-> "doc_4", snippet |-> "rumour",
        credibilityScore |-> 2, relevanceScore |-> 5 ] }
UnknownClaimId == <<"claim", 0, "nobody", 0>>
ClaimIds == { graph.claims[i].id : i \in 1..Len(graph.claims) } \cup {UnknownClaimId}
QueryOptions ==
    { Restrict([maxResults |-> k], K) : k \in 0..1, K \in SUBSET {"maxResults"} }

StoreNext ==
    \/ KnowledgeNext /\ integ'["call_2"].pc = "idle"
    \/ \E id \in ClaimIds, ev \in EvidenceInputs :
           UpdateKnowledgeWithEvidence(id, ev) /\ UNCHANGED <<offKnowledge, now>>
    \/ \E o \in QueryOptions, hits \in SUBSET (1..Len(vectors)) :
           QueryKnowledge(o, hits) /\ UNCHANGED <<offKnowledge, now>>

\* one client of the KnowledgeManager: it integrates a document, adds evidence to
\* claims and queries the store
StoreSpec == Init /\ [][StoreNext]_vars

\* an entity as EntityExtractor builds it for a document, with the confidence
\* and the properties an extractor of its own kind would give it
UpsertEntity(name, confidence, properties, documentId) ==
    [ id |-> <<"entity", ToLowerCase(name), now>>,
      type |-> "concept",
      name |-> name,
      description |-> "Entity extracted from document: " \o name,
      properties |-> properties,
      confidence |-> confidence,
      sources |-> <<documentId>>,
      created |-> now,
      lastUpdated |-> now ]

UpsertNames == {"Acme", "ACME"}
UpsertConfidences == { Ratio(6, 10), Ratio(9, 10) }
UpsertProperties ==
    { Restrict([ founded |-> "2002", sector |-> "space" ], K) :
        K \in {{}, {"founded"}, {"founded", "sector"}} }
      \cup { [ founded |-> "1999" ] }
UpsertDocuments == {"doc_1", "doc_2"}

\* entities of one name in two spellings, and one entity of another name
UpsertInputs ==
    { UpsertEntity(name, c, ps, d) :
        name \in UpsertNames, c \in UpsertConfidences, ps \in UpsertProperties,
        d \in UpsertDocuments }
      \cup { UpsertEntity("Rockets", Ratio(6, 10), Restrict([ founded |-> "" ], {}), "doc_1") }

UpsertNext ==
    \E entity \in UpsertInputs :
        StoreEntitiesCall(<<entity>>, entity.sources[1]) /\ UNCHANGED <<offKnowledge, now>>

\* the entity store and the callers of storeEntities
UpsertSpec == Init /\ [][UpsertNext]_vars

\* the memory items the callers store: below and above the thresholds of
\* importance and of access count, one content containing the other
MemoryItems ==
    [ content : {"solar", "Solar panel"}, importance : {5, 7, 9}, accessCount : {0, 4} ]

\* the criteria the callers of forget pass: each may be omitted, each may be 0
ForgetCriteria ==
    { Restrict([ maxAge |-> a, minImportance |-> m, unusedThreshold |-> u ], K) :
        a \in {0, HourMs}, m \in {0, 6}, u \in {0, 2},
        K \in SUBSET {"maxAge", "minImportance", "unusedThreshold"} }

MemoryNext ==
    \/ \E item \in MemoryItems, immediate \in BOOLEAN :
        memory.nextId <= MaxStores /\ MemoryStore(item, immediate) /\ UNCHANGED offMemory
    \/ MemoryConsolidate /\ UNCHANGED offMemory
    \/ \E criteria \in ForgetCriteria : MemoryForget(criteria) /\ UNCHANGED offMemory
    \/ \E ms \in {HourMs, HourMs + 1} : MemoryTick(ms) /\ UNCHANGED offMemory

\* one MemoryArchitecture and the callers of store, consolidate and forget
MemorySpec == Init /\ [][MemoryNext]_vars

\* the item a caller stores over and over
PlainItem == [ content |-> "note", importance |-> 5, accessCount |-> 0 ]

NoCriteria == Restrict([ maxAge |-> 0 ], {})

ShortTermNext ==
    \/ /\ memory.nextId <= ShortTermCapacity + MaxOverflow
       /\ MemoryStore(PlainItem, FALSE) /\ UNCHANGED offMemory
    \/ MemoryConsolidate /\ UNCHANGED offMemory
    \/ MemoryForget(NoCriteria) /\ UNCHANGED offMemory
    \/ MemoryTick(HourMs + 1) /\ UNCHANGED offMemory

\* one MemoryArchitecture whose short-term buffer is filled beyond its capacity
ShortTermSpec == Init /\ [][ShortTermNext]_vars

EpisodeIds == { <<"episode", n>> : n \in 1..MaxEpisodes }
EpisodeSessions == {"session_1", "session_2"}

\* the episodes the callers record
Episodes ==
    [ id : EpisodeIds, sessionId : EpisodeSessions, query : {"solar power"},
      outcome : {"completed", "failed"} ]

EpisodicNext ==
    \/ \E episode \in Episodes : RecordEpisode(episode) /\ UNCHANGED offMemory
    \/ \E sessionId \in EpisodeSessions : SessionHistory(sessionId) /\ UNCHANGED offMemory

\* one MemoryArchitecture and the callers of its episodic store
EpisodicSpec == Init /\ [][EpisodicNext]_vars

RetrievalNext ==
    \/ \E n \in 0..MaxQueries : RetrievalSearch(n) /\ UNCHANGED offRetrieval
    \/ \E k \in 1..MaxQueries, outcome \in {"documents", "errors"} :
           SearchSettlesWith(k, outcome) /\ UNCHANGED offRetrieval
    \/ BatchSettled /\ UNCHANGED offRetrieval
    \/ PauseElapsed /\ UNCHANGED offRetrieval

\* one RetrievalSystem, its caller and the engine
RetrievalSpec == Init /\ [][RetrievalNext]_vars

----------------------------------------------------------------------------
(* Properties *)

\* the statuses after which stopSession refuses a session
TerminalStatuses == {"completed", "failed"}

\* the terminal statuses of the state machine: Completed, Failed and Stopped
FinalStatuses == TerminalStatuses \cup {"stopped"}

Started(id) == id \in DOMAIN sessions
Supplied(id, key) == key \in DOMAIN task[id].options
Stops(id) == events[id]["sessionStopped"]
Iterations(id) == events[id]["iterationStarted"]

C2_StopEndsSession ==
    \A id \in DOMAIN sessions :
        \A stop \in Range(Stops(id)) :
            stop.midIteration =>
                /\ \A n \in Range(Iterations(id)) : n <= stop.iteration
                /\ ( /\ thrown[id] = <<>>
                     /\ \/ sessions[id].currentIteration > stop.iteration
                        \/ task[id].pc \notin IterationPcs )
                       => sessions[id].status = "stopped"

\* C3: terminal statuses are absorbing: no step changes a status that is completed,
\* failed or stopped.
C3_TerminalAbsorbing ==
    [][ \A id \in DOMAIN sessions :
          sessions[id].status \in FinalStatuses
              => sessions'[id].status = sessions[id].status ]_vars

\* C4: a session started with maxIterations = 1 starts at most one iteration, enters
\* searching only for that iteration, has run exactly one iteration when the loop is
\* left without an error, is synthesizing after the loop and completed at the end.
C4_OneIterationInv ==
    \A id \in DOMAIN sessions :
        ( Supplied(id, "maxIterations") /\ task[id].options["maxIterations"] = 1 ) =>
            /\ Len(Iterations(id)) <= 1
            /\ sessions[id].currentIteration <= 1
            /\ ( task[id].pc \in {"synthesizing", "done"} /\ thrown[id] = <<>> )
                  => Iterations(id) = <<1>>
            /\ ( task[id].pc = "synthesizing" /\ Stops(id) = <<>> )
                  => sessions[id].status = "synthesizing"
            /\ ( task[id].pc = "done" /\ thrown[id] = <<>> )
                  => /\ sessions[id].status = "completed"
                     /\ Len(events[id]["sessionCompleted"]) = 1

C4_SearchingOnce ==
    \A id \in DOMAIN sessions :
        ( /\ Supplied(id, "maxIterations") /\ task[id].options["maxIterations"] = 1
          /\ sessions'[id].status = "searching"
          /\ sessions[id].status # "searching" )
        => /\ Iterations(id) = <<>>
           /\ Iterations(id)' = <<1>>

C4_SingleIteration == []C4_OneIterationInv /\ [][C4_SearchingOnce]_vars

\* C4 witness: a session with maxIterations = 1 has completed after one iteration
\* that left two questions pending.
C4_Witness ==
    \E id \in DOMAIN sessions :
        /\ Supplied(id, "maxIterations") /\ task[id].options["maxIterations"] = 1
        /\ task[id].pc = "done"
        /\ sessions[id].status = "completed"
        /\ Iterations(id) = <<1>>
        /\ Len(sessions[id].memory.pendingQuestions) = 2

\* C5: currentIteration <= maxIterations, and the number of iterationStarted events
\* never exceeds the maxIterations the caller supplied.
C5_IterationsWithinCeiling ==
    \A id \in DOMAIN sessions :
        /\ sessions[id].currentIteration <= sessions[id].maxIterations
        /\ Supplied(id, "maxIterations")
              => Len(Iterations(id)) <= task[id].options["maxIterations"]

\* C6: in every reachable state of every session usedTimeMs <= maxTimeMs.
C6_TimeWithinCeiling ==
    \A id \in DOMAIN sessions :
        sessions[id].budget.usedTimeMs <= sessions[id].budget.maxTimeMs

\* C7: the status of a session changes only along the edges of the state machine,
\* and a new session is initializing.
StatusEdges ==
    { <<"initializing", "searching">>, <<"searching", "reading">>,
      <<"reading", "reasoning">>, <<"reasoning", "searching">>,
      <<"reasoning", "synthesizing">>, <<"synthesizing", "completed">> }
    \cup { <<st, end>> : st \in { "initializing", "searching", "reading",
                                   "reasoning", "synthesizing" },
                         end \in {"failed", "stopped"} }

C7_StatusEdges ==
    [][ \A id \in DOMAIN sessions' :
          IF id \in DOMAIN sessions
          THEN \/ sessions'[id].status = sessions[id].status
               \/ <<sessions[id].status, sessions'[id].status>> \in StatusEdges
               \/ /\ sessions[id].status = "initializing"
                  /\ sessions'[id].status = "synthesizing"
                  /\ Iterations(id) = <<>>
          ELSE sessions'[id].status = "initializing" ]_vars

C9_ThrowFailsSession ==
    \A id \in DOMAIN sessions :
        thrown[id] # <<>> =>
            /\ sessions[id].status = "failed"
            /\ events[id]["sessionFailed"] = thrown[id]
            /\ Len(thrown[id]) = 1
            /\ events[id]["sessionCompleted"] = <<>>

\* C9 witness: the extraction threw in a session that had been stopped before.
C9_Witness ==
    \E id \in DOMAIN sessions :
        /\ thrown[id] = <<"extraction failed">>
        /\ sessions[id].status = "failed"
        /\ Stops(id) # <<>>

----------------------------------------------------------------------------
(* Concurrent integration into the knowledge graph *)

Integrated(call) == integ[call].pc = "done"

\* the stored entities whose name is the given one, whatever the case
Named(name) ==
    SelectSeq(graph.entities, LAMBDA e : ToLowerCase(e.name) = ToLowerCase(name))

Mentions(call, name) ==
    \E i \in 1..Len(integ[call].entities) : integ[call].entities[i].name = name

BothIntegratedAcme ==
    /\ \A c \in Calls : Integrated(c) /\ Mentions(c, "Acme")
    /\ integ["call_1"].document.id # integ["call_2"].document.id

\* C10: once two concurrent integrations of different documents that both
\* mention "Acme" have completed, the graph holds exactly one "Acme" entity
\* and its source list holds exactly two source ids, one per document.
C10_OneAcmeTwoSources ==
    BothIntegratedAcme =>
        /\ Len(Named("Acme")) = 1
        /\ Len(Named("Acme")[1].sources) = Cardinality(Calls)
        /\ Range(Named("Acme")[1].sources)
             = { integ[c].document.id : c \in Calls }


----------------------------------------------------------------------------
(* Repeated upserts *)

\* the calls whose storeEntities has run
EntitiesStored(call) ==
    integ[call].pc \in {"entitiesStored", "relationsStored", "claimsStored", "done"}

\* both calls upsert entities with identical fields
SameEntitiesUpserted ==
    /\ \A c \in Calls : integ[c].pc # "idle"
    /\ integ["call_1"].entities = integ["call_2"].entities
    /\ integ["call_1"].entities # <<>>

\* C11: when the same entity is upserted twice with identical fields, exactly one
\* entity is stored for its (name, type), its confidence is the one of the first
\* upsert, and its source count is the number of upsert calls made so far (one
\* after the first insert, two after the repeat).
C11_UpsertIdempotent ==
    SameEntitiesUpserted =>
        \A i \in 1..Len(integ["call_1"].entities) :
            LET entity == integ["call_1"].entities[i]
                upserts == Cardinality({ c \in Calls : EntitiesStored(c) })
            IN upserts > 0 =>
                 /\ Len(Named(entity.name)) = 1
                 /\ Named(entity.name)[1].confidence = entity.confidence
                 /\ Len(Named(entity.name)[1].sources) = upserts

----------------------------------------------------------------------------
(* Evidence *)

\* a step that is a call of updateKnowledgeWithEvidence
EvidenceStep ==
    /\ reply'.op = "updateKnowledgeWithEvidence"
    /\ integ' = integ /\ now' = now
    /\ graph' # graph \/ reply' # reply

\* the mean of credibilityScore * relevanceScore over the evidence of a claim
MeanStrength(claim) == Ratio(SumStrength(claim.evidence), 100 * Len(claim.evidence))

\* C12: addEvidence on an existing claim appends the evidence, sets the confidence
\* to the mean of credibilityScore * relevanceScore over all its evidence, sets the
\* status to verified when that mean is above 0.8, to false when it is below 0.3 and
\* leaves it otherwise, whatever the status was, and returns both; on an absent
\* claim id it reports the failure and changes nothing in the store.
C12_AddEvidence ==
    [][ EvidenceStep =>
          LET at == MapIndex(graph.claims, reply'.claimId)
          IN IF at = 0
             THEN /\ ~reply'.success
                  /\ graph' = graph /\ vectors' = vectors
             ELSE LET old == graph.claims[at]
                      new == graph'.claims[at]
                  IN /\ reply'.success
                     /\ Len(new.evidence) = Len(old.evidence) + 1
                     /\ SubSeq(new.evidence, 1, Len(old.evidence)) = old.evidence
                     /\ new.confidence = MeanStrength(new)
                     /\ new.verificationStatus =
                            IF Above(new.confidence, 8) THEN "verified"
                            ELSE IF Below(new.confidence, 3) THEN "false"
                            ELSE old.verificationStatus
                     /\ reply'.newConfidence = new.confidence
                     /\ reply'.verificationStatus = new.verificationStatus ]_vars

\* evidence of credibility 1.0 and relevance 1.0
Perfect(evidence) == evidence.credibilityScore = 10 /\ evidence.relevanceScore = 10

\* once calls with perfect evidence have brought the confidence of a claim above
\* 0.8, the claim is verified
C13_VerifiedAboveThreshold ==
    \A i \in 1..Len(graph.claims) :
        LET claim == graph.claims[i]
        IN ( /\ Perfect(claim.evidence[Len(claim.evidence)])
             /\ Above(claim.confidence, 8) )
           => claim.verificationStatus = "verified"

\* a call with perfect evidence does not lower the confidence of the claim
C13_NonDecreasing ==
    EvidenceStep =>
        \A i \in 1..Len(graph.claims) :
            LET old == graph.claims[i].confidence
                new == graph'.claims[i].confidence
                added == graph'.claims[i].evidence
            IN ( graph'.claims[i] # graph.claims[i] /\ Perfect(added[Len(added)]) )
               => new.num * old.den >= old.num * new.den

\* C13: repeated addEvidence calls with evidence of credibility 1.0 and relevance
\* 1.0 never lower the confidence of a stored claim and, once they have brought it
\* above 0.8, leave the claim verified, whatever its evidence and status were.
C13_PerfectEvidenceConverges ==
    []C13_VerifiedAboveThreshold /\ [][C13_NonDecreasing]_vars

----------------------------------------------------------------------------
(* Queries *)

\* C14: queryKnowledge(text, maxResults = 0) returns empty entity, claim and
\* relation sets, whatever the store contains.
C14_QueryZeroResults ==
    ( /\ reply.op = "queryKnowledge"
      /\ "maxResults" \in DOMAIN reply.options
      /\ reply.options["maxResults"] = 0 )
    => /\ reply.entities = {}
       /\ reply.claims = {}
       /\ reply.relations = {}

----------------------------------------------------------------------------
(* Vector index *)

SquaredNorm(v) == Dot(v, v)

\* cos(q, a) >= cos(q, b) for vectors of non-zero magnitude, with 0 standing for
\* the cosine of a vector of zero magnitude
SignedSquare(q, v) ==
    IF SquaredNorm(q) = 0 \/ SquaredNorm(v) = 0 THEN <<0, 1>>
    ELSE <<Sign(Dot(q, v)) * Dot(q, v) * Dot(q, v), SquaredNorm(q) * SquaredNorm(v)>>
CosineAtLeast(q, a, b) ==
    SignedSquare(q, a)[1] * SignedSquare(q, b)[2]
        >= SignedSquare(q, b)[1] * SignedSquare(q, a)[2]

C15_IndexInv ==
    /\ \A i, j \in 1..Len(index) : index[i].id = index[j].id => i = j
    /\ indexReply.op \in {"add", "update"} => indexReply.embedding \in Range(index)
    /\ indexReply.op = "search" =>
          LET rs == indexReply.results
              q == indexReply.queryVector
          IN /\ Len(rs) = Min(indexReply.k, Len(index))
             /\ \A i \in 1..Len(rs) :
                   /\ rs[i].embedding \in Range(index)
                   /\ rs[i].id = rs[i].embedding.id
                   /\ \A j \in 1..Len(rs) : rs[i].id = rs[j].id => i = j
                   /\ ( SquaredNorm(q) = 0 \/ SquaredNorm(rs[i].embedding.vector) = 0 )
                         => rs[i].similarity = [ dot |-> 0, norms |-> 1 ]
                   /\ rs[i].similarity.norms > 0
                   /\ i < Len(rs) =>
                         CosineAtLeast(q, rs[i].embedding.vector, rs[i + 1].embedding.vector)
                   /\ \A e \in Range(index) :
                         ( \A j \in 1..Len(rs) : rs[j].id # e.id )
                             => CosineAtLeast(q, rs[i].embedding.vector, e.vector)

C15_RemoveStep ==
    ( /\ indexReply'.op = "remove"
      /\ index' # index \/ indexReply' # indexReply )
    => /\ indexReply'.result = (\E e \in Range(index) : e.id = indexReply'.id)
       /\ Range(index') = { e \in Range(index) : e.id # indexReply'.id }

\* C15: search(v, k) returns min(k, number of indexed embeddings) results, the most
\* similar ones in non-increasing order of cosine similarity, with similarity 0 for
\* every candidate when the query or the candidate has zero magnitude; add and
\* update keep one embedding per id; remove returns true exactly when the id was
\* indexed.
C15_VectorIndex == []C15_IndexInv /\ [][C15_RemoveStep]_vars

\* C15 witness: a search for the two nearest of three indexed embeddings, one of
\* them of zero magnitude, that ranks an embedding of positive cosine first.
C15_Witness ==
    /\ indexReply.op = "search"
    /\ indexReply.k = 2
    /\ Len(index) = 3
    /\ \E e \in Range(index) : SquaredNorm(e.vector) = 0
    /\ Len(indexReply.results) = 2
    /\ indexReply.results[1].similarity.dot > 0
    /\ indexReply.results[2].similarity.dot = 0

----------------------------------------------------------------------------
(* Relevance categories *)

\* C16: the category of a scored document is contradictory when bias.overall > 0.8;
\* otherwise core when overall > 0.7 and semantic > 0.6; otherwise peripheral when
\* overall > 0.4; otherwise irrelevant. A score exactly on a boundary falls into
\* the lower case.
C16_CategoryPriority ==
    scored.category # "none" =>
        /\ scored.category \in {"contradictory", "core", "peripheral", "irrelevant"}
        /\ scored.category = "contradictory" <=> scored.bias.overall > 80
        /\ scored.category = "core" <=>
              /\ scored.bias.overall <= 80
              /\ scored.overall > 70 /\ scored.semantic > 60
        /\ scored.category = "peripheral" <=>
              /\ scored.bias.overall <= 80
              /\ ~(scored.overall > 70 /\ scored.semantic > 60)
              /\ scored.overall > 40
        /\ scored.category = "irrelevant" <=>
              /\ scored.bias.overall <= 80
              /\ scored.overall <= 40

\* C16 witness: a document on the boundaries 0.8 of the bias and 0.7 of the overall
\* score, with a high semantic score, is peripheral.
C16_Witness ==
    /\ scored.category = "peripheral"
    /\ scored.bias.overall = 80
    /\ scored.overall = 70
    /\ scored.semantic = 100


\* a step of the memory in which the call named op returned
MemoryStep(op) ==
    /\ memoryReply'.op = op
    /\ now' = now
    /\ memVars' # memVars

\* the long-term items that have the content of item
SameContent(storage, item) ==
    { stored \in Range(storage) : stored.content = item.content }

\* C17: consolidate() removes from short-term memory exactly the items with
\* importance > 0.6, or accessCount > 3, or age > 1 hour, and keeps the others;
\* every removed item is afterwards represented in long-term memory: stored as
\* a new long-term item when no long-term item has identical content, merged
\* into the existing item otherwise; no item is in neither tier afterwards
C17_ConsolidatePromotes ==
    [][ MemoryStep("consolidate") =>
          /\ Range(memory'.shortTerm) =
                { item \in Range(memory.shortTerm) : ~ShouldConsolidate(item, now) }
          /\ \A item \in Range(memory.shortTerm) \ Range(memory'.shortTerm) :
                /\ SameContent(memory'.longTerm, item) # {}
                /\ SameContent(memory.longTerm, item) = {}
                      => item \in Range(memory'.longTerm)
                /\ SameContent(memory.longTerm, item) # {}
                      => \A stored \in Range(memory'.longTerm) : stored.id # item.id
      ]_vars

\* the short-term item inserted first among those held: the callers number
\* their items in the order of the calls
OldestInserted(items) ==
    CHOOSE item \in Range(items) : \A other \in Range(items) : item.id <= other.id

C18_AtMostCapacity == Len(memory.shortTerm) <= ShortTermCapacity

C18_AddOnFull ==
    ( /\ MemoryStep("store")
      /\ memory'.longTerm = memory.longTerm
      /\ Len(memory.shortTerm) = ShortTermCapacity )
    => /\ Range(memory.shortTerm) \ Range(memory'.shortTerm)
            = { OldestInserted(memory.shortTerm) }
       /\ \E item \in Range(memory'.shortTerm) : item.id = memory.nextId
       /\ Len(memory'.shortTerm) = ShortTermCapacity

\* C18: after any sequence of add, cleanup and consolidate operations the
\* short-term store holds at most capacity (50) items, and an add on a full
\* store evicts exactly the oldest-inserted item and keeps the new one
C18_ShortTermBounded == []C18_AtMostCapacity /\ [][C18_AddOnFull]_vars

\* the buffer is full, the first item has been evicted by the add of the
\* fifty-first, and nothing else can have removed it: no time has passed
C18_Witness ==
    /\ now = 0
    /\ Len(memory.shortTerm) = ShortTermCapacity
    /\ memory.nextId = ShortTermCapacity + 2
    /\ Head(memory.shortTerm).id = 2
    /\ memory.shortTerm[ShortTermCapacity].id = ShortTermCapacity + 1

\* whether the caller supplied the criterion named key
CriterionSupplied(criteria, key) == key \in DOMAIN criteria

\* an item matches at least one criterion the caller supplied
MatchesCriteria(item, criteria, time) ==
    \/ CriterionSupplied(criteria, "maxAge") /\ time - item.created > criteria.maxAge
    \/ CriterionSupplied(criteria, "minImportance") /\ item.importance < criteria.minImportance
    \/ CriterionSupplied(criteria, "unusedThreshold") /\ item.accessCount < criteria.unusedThreshold

\* C19: forget(criteria) removes from long-term memory exactly the items that
\* match at least one supplied criterion (age > maxAge, importance <
\* minImportance, accessCount < unusedThreshold), for every supplied value,
\* returns the number of removed items, and leaves the other items unchanged
C19_ForgetExactly ==
    [][ MemoryStep("forget") =>
          LET criteria == memoryReply'.criteria
              matching == { item \in Range(memory.longTerm) :
                                MatchesCriteria(item, criteria, now) }
          IN /\ Range(memory'.longTerm) = Range(memory.longTerm) \ matching
             /\ memoryReply'.itemsForgotten = Cardinality(matching)
      ]_vars

\* C20: episodic memory is append-only: after addEpisode(e) every later
\* getSessionHistory(e.sessionId) still returns e unchanged, whatever episodes
\* are added afterwards, and each addEpisode call increases the number of
\* stored episodes by exactly one
C20_EpisodicAppendOnly ==
    [][ /\ \A episode \in Range(memory.episodes) :
              Contains(GetSessionHistory(memory'.episodes, episode.sessionId), episode)
        /\ MemoryStep("recordEpisode") =>
              Len(memory'.episodes) = Len(memory.episodes) + 1
      ]_vars

----------------------------------------------------------------------------
(* Facts, ceilings and the session management calls *)

\* the ids of the sources in a list of sources
SourceIdsOf(sources) == { sources[i].id : i \in 1..Len(sources) }

\* the facts a report shows, over its categories
ReportedFacts(report) ==
    UNION { Range(report.findings[c]) : c \in DOMAIN report.findings }

\* C22: every fact stored in a session carries at least one source id, and
\* that id identifies a source recorded in the session's source list, so the
\* report built on loop exit contains the source of every fact it reports
C22_FactsHaveSources ==
    \A id \in DOMAIN sessions :
        /\ \A fact \in Range(sessions[id].memory.discoveredFacts) :
              /\ fact.sources # <<>>
              /\ Range(fact.sources) \subseteq SourceIdsOf(sessions[id].memory.sources)
        /\ \A payload \in Range(events[id]["sessionCompleted"]) :
              \A fact \in ReportedFacts(payload) :
                  Range(fact.sources) \subseteq SourceIdsOf(payload.sources)

\* the ceiling a session must have for what the caller passed under key
ExpectedCeiling(options, key, dflt) ==
    IF key \in DOMAIN options THEN options[key] ELSE dflt

\* C23: the ceilings of a new session equal the caller-supplied values for
\* every value the caller supplies (including 0), the defaults 300000 ms, 50
\* API calls, 100000 tokens and 10 iterations are used only for ceilings the
\* caller omits, and all counters start at zero
C23_CeilingsAsSupplied ==
    [][ \A id \in DOMAIN sessions' \ DOMAIN sessions :
          LET session == sessions'[id]
              options == task'[id].options
          IN /\ session.budget.maxTimeMs =
                    ExpectedCeiling(options, "maxTime", DefaultMaxTimeMs)
             /\ session.budget.maxApiCalls =
                    ExpectedCeiling(options, "maxApiCalls", DefaultMaxApiCalls)
             /\ session.budget.maxTokens =
                    ExpectedCeiling(options, "maxTokens", DefaultMaxTokens)
             /\ session.maxIterations =
                    ExpectedCeiling(options, "maxIterations", DefaultMaxIterations)
             /\ session.budget.usedTimeMs = 0
             /\ session.budget.usedApiCalls = 0
             /\ session.budget.usedTokens = 0
             /\ session.currentIteration = 0
      ]_vars

\* startResearchSession returns: the session is registered and no iteration has run
C24_AtReturn ==
    \A id \in DOMAIN sessions' \ DOMAIN sessions :
        /\ sessions'[id].status = "initializing"
        /\ sessions'[id].currentIteration = 0
        /\ events'[id]["iterationStarted"] = <<>>
        /\ Len(events'[id]["sessionStarted"]) = 1

\* an iterationStarted is emitted when sessionStarted has been emitted already
C24_StartedFirst ==
    \A id \in SessionIds :
        events'[id]["iterationStarted"] # events[id]["iterationStarted"]
            => events[id]["sessionStarted"] # <<>>

C24_EndReported(id) ==
    events[id]["sessionCompleted"] # <<>> \/ events[id]["sessionFailed"] # <<>>

\* C24: startResearchSession returns the session id without running any
\* iteration: at return the session is registered, has status initializing
\* and currentIteration 0; sessionStarted is emitted before any
\* iterationStarted of that session, and the session later reports its end
\* through a sessionCompleted or sessionFailed event
C24_StartThenRun ==
    /\ [][C24_AtReturn /\ C24_StartedFirst]_vars
    /\ \A id \in SessionIds : Started(id) ~> C24_EndReported(id)

\* a session that ran two iterations has reported its completion
C24_Witness ==
    \E id \in DOMAIN sessions :
        /\ Iterations(id) = <<1, 2>>
        /\ Len(events[id]["sessionCompleted"]) = 1
        /\ events[id]["sessionStarted"] # <<>>

\* a session with that id exists and is not in a terminal status
Stoppable_Claimed(id) ==
    /\ id \in DOMAIN sessions
    /\ sessions[id].status \notin TerminalStatuses

\* the sessionStopped events a step emits for id
StopsEmitted(id) ==
    IF id \in SessionIds
    THEN Len(events'[id]["sessionStopped"]) - Len(events[id]["sessionStopped"])
    ELSE 0

\* C25: stopSession(id) returns true and emits sessionStopped exactly when a
\* session with that id exists and is not in a terminal status; for an unknown
\* id or a session already in a terminal status it returns false, emits no
\* event and changes no session state; getSession of an unknown id reports
\* not-found
C25_StopAndGet ==
    [][ called'.n # called.n =>
          LET id == called'.id
          IN /\ called'.op = "stopSession" =>
                   /\ called'.returned = Stoppable_Claimed(id)
                   /\ StopsEmitted(id) = IF Stoppable_Claimed(id) THEN 1 ELSE 0
                   /\ ~Stoppable_Claimed(id) =>
                         /\ sessions' = sessions
                         /\ events' = events
                   /\ Stoppable_Claimed(id) =>
                         events'[id] = Emit(events[id], "sessionStopped",
                                            events'[id]["sessionStopped"][Len(Stops(id)) + 1])
             /\ called'.op = "getSession" =>
                   /\ id \notin DOMAIN sessions <=> called'.session = <<>>
                   /\ UNCHANGED <<sessions, events>>
      ]_vars

\* stopSession was refused for a session that the loop had completed
C25_Witness ==
    /\ called.op = "stopSession"
    /\ called.id \in DOMAIN sessions
    /\ ~called.returned
    /\ sessions[called.id].status = "completed"
    /\ task[called.id].pc = "done"
    /\ Stops(called.id) = <<>>

\* the condition under which iteration number done + 1 may start
MayStart(session, done) ==
    /\ session.budget.usedTimeMs < session.budget.maxTimeMs
    /\ session.budget.usedApiCalls < session.budget.maxApiCalls
    /\ session.budget.usedTokens < session.budget.maxTokens
    /\ done < session.maxIterations
    /\ done = 0 \/ session.memory.pendingQuestions # <<>>

\* the loop of id evaluates its while condition in this step
AtLoopHead(id) ==
    /\ \/ task[id].pc = "scheduled"
       \/ task[id].pc = "evaluated" /\ ~task[id].goalsSatisfied
    /\ task'[id].pc # task[id].pc

\* C27: an iteration is started only in a state where usedTimeMs < maxTimeMs,
\* usedApiCalls < maxApiCalls, usedTokens < maxTokens, currentIteration <
\* maxIterations and (currentIteration = 0 or the pending-question queue is
\* non-empty); the ceilings are re-checked before each iteration, and when a
\* conjunct is false the loop ends and the session proceeds to synthesizing
C27_IterationGuard ==
    [][ \A id \in SessionIds :
          /\ Iterations(id)' # Iterations(id) =>
                /\ AtLoopHead(id)
                /\ MayStart(sessions'[id], sessions'[id].currentIteration - 1)
                /\ sessions'[id].currentIteration = sessions[id].currentIteration + 1
          /\ ( AtLoopHead(id) /\ Iterations(id)' = Iterations(id) ) =>
                /\ ~MayStart(sessions'[id], sessions'[id].currentIteration)
                /\ sessions'[id].status = "synthesizing"
                /\ task'[id].pc = "synthesizing"
      ]_vars

\* the second iteration has started with a question pending, and its search
\* is in flight
C27_Witness ==
    \E id \in DOMAIN sessions :
        /\ Iterations(id) = <<1, 2>>
        /\ task[id].pc = "searching"
        /\ sessions[id].memory.pendingQuestions # <<>>
        /\ sessions[id].budget.usedApiCalls = 1

\* the iteration numbers the iterationCompleted events of id carry
Completions(id) ==
    [ i \in 1..Len(events[id]["iterationCompleted"]) |->
        events[id]["iterationCompleted"][i].iteration ]

NoDuplicates(seq) ==
    \A i, j \in 1..Len(seq) : seq[i] = seq[j] => i = j

SearchSettled(id) ==
    /\ task[id].pc = "searching"
    /\ task'[id].searchQueries = Tail(task[id].searchQueries)

\* executeSearch goes on with the terms that are left
RestDispatched(id) ==
    LET rest == Tail(task[id].searchQueries)
    IN /\ task'[id].searchQueries = rest
       /\ rest # <<>> =>
             /\ task'[id].pc = "searching"
             /\ sessions'[id].memory.exploredQueries =
                    Append(sessions[id].memory.exploredQueries, Head(rest))

\* C30: when the search for one term throws, the session does not fail and the
\* remaining terms of the iteration are still dispatched; usedApiCalls is
\* incremented by exactly one for each search that succeeds and is not
\* incremented for a search that fails
C30_SearchErrorContained ==
    [][ \A id \in DOMAIN sessions :
          LET failed == task'[id].failedSearches # task[id].failedSearches
              calls == sessions[id].budget.usedApiCalls
          IN /\ failed =>
                   /\ sessions'[id].budget.usedApiCalls = calls
                   /\ sessions'[id].status # "failed"
                   /\ thrown'[id] = thrown[id]
                   /\ events'[id]["sessionFailed"] = events[id]["sessionFailed"]
                   /\ RestDispatched(id)
             /\ ( SearchSettled(id) /\ ~failed ) =>
                   sessions'[id].budget.usedApiCalls = calls + 1
             /\ sessions'[id].budget.usedApiCalls # calls =>
                   SearchSettled(id) /\ ~failed
      ]_vars

\* a search failed, the next term was dispatched and its search succeeded
C30_Witness ==
    \E id \in DOMAIN sessions :
        /\ task[id].failedSearches = 1
        /\ sessions[id].currentIteration = 2
        /\ Len(sessions[id].memory.exploredQueries) = 3
        /\ sessions[id].budget.usedApiCalls = 2
        /\ sessions[id].status = "reading"

----------------------------------------------------------------------------
(* Batches of retrieval calls *)

\* C21: during one RetrievalSystem.search call at most 3 retrieval calls are
\* in flight at any moment: the calls of a batch are not started until the
\* previous batch of 3 has settled and the pause between batches has elapsed
C21_AtMostThreeInFlight ==
    /\ Cardinality(InFlight(retrieval)) <= BatchSize
    /\ InFlight(retrieval) \subseteq BatchOf(retrieval)

InUnit(x) == 0 <= x /\ x <= 100

ExtractionFailed(id) ==
    /\ task[id].pc = "reading"
    /\ Len(thrown'[id]) > Len(thrown[id])

StoredNow(id) ==
    SubSeq(sessions'[id].memory.discoveredFacts,
           Len(sessions[id].memory.discoveredFacts) + 1,
           Len(sessions'[id].memory.discoveredFacts))

QuestionIds(qs) == { qs[i].id : i \in 1..Len(qs) }

\* the follow-up question of the k-th fact (from 0) of an iteration
FollowUpOf(iteration, k, fact) ==
    [ id |-> <<"question", iteration, k>>,
      query |-> "What additional evidence supports: "
                \o SubSeq(fact.content, 1, Min(50, Len(fact.content))) \o "...?" ]

\* C32: at the end of the memory update of an iteration, one follow-up question
\* has been added for exactly the facts stored in that iteration whose
\* confidence is below 0.7 (the questions that are new are follow-ups of such
\* facts, one each, and each such fact has its follow-up pending unless a stored
\* fact answers it), and no pending question (old or new) remains whose text is
\* a case-insensitive substring of the content of a fact stored in that
\* iteration.
C32_FollowUpsAndAnswered ==
    [][\A id \in SessionIds :
          (task[id].pc = "reasoning" /\ task'[id].pc = "evaluated") =>
              LET stored == StoredNow(id)
                  before == sessions[id].memory.pendingQuestions
                  after == sessions'[id].memory.pendingQuestions
                  low == { i \in 1..Len(stored) : stored[i].confidence < 7 }
                  added == { i \in 1..Len(after) : after[i].id \notin QuestionIds(before) }
                  Pending(q) == \E i \in added : after[i].id = q.id /\ after[i].query = q.query
                  contents == { ToLowerCase(stored[j].content) : j \in 1..Len(stored) }
                  AnsweredNow(q) == \E c \in contents : Includes(c, ToLowerCase(q.query))
                  followUps == { FollowUpOf(sessions[id].currentIteration, i - 1, stored[i]) :
                                   i \in low }
              IN  /\ { [ id |-> after[i].id, query |-> after[i].query ] : i \in added }
                        \subseteq followUps
                  /\ Cardinality(added) = Cardinality({ after[i].id : i \in added })
                  /\ \A q \in followUps : Pending(q) \/ AnsweredNow(q)
                  /\ \A q \in { ToLowerCase(after[i].query) : i \in 1..Len(after) } :
                        \A c \in contents : ~Includes(c, q)]_vars

\* a memory update of the second iteration has added a question and has removed
\* the questions of the first iteration, which its facts answer
C32_Witness ==
    \E id \in DOMAIN sessions :
        /\ task[id].pc = "evaluated"
        /\ sessions[id].currentIteration = 2
        /\ Len(task[id].result.newQuestions) > 0
        /\ \E q \in Range(sessions[id].memory.pendingQuestions) : q.id[2] = 2
        /\ \A q \in Range(sessions[id].memory.pendingQuestions) : q.id[2] # 1

\* more than 5 discovered facts and an iteration count greater than 2
GoalsHold(session) ==
    Len(session.memory.discoveredFacts) > 5 /\ session.currentIteration > 2

\* every budget ceiling of the session still has room
CeilingsHaveRoom(session) ==
    /\ session.budget.usedTimeMs < session.budget.maxTimeMs
    /\ session.budget.usedApiCalls < session.budget.maxApiCalls
    /\ session.budget.usedTokens < session.budget.maxTokens
    /\ session.currentIteration < session.maxIterations

\* C33: if the goal-completion predicate holds at the end of an iteration (more
\* than 5 discovered facts, iteration count greater than 2), no further
\* iteration starts and the session goes to synthesizing and from there, when
\* the synthesis has resolved, to completed, also when every ceiling has room
\* and pending questions remain.
C33_GoalsStopTheLoop ==
    [][\A id \in SessionIds :
          /\ (task[id].pc = "evaluated" /\ GoalsHold(sessions[id])
                /\ task'[id] # task[id]) =>
                 /\ task'[id].pc = "synthesizing"
                 /\ sessions'[id].status = "synthesizing"
          /\ (id \in DOMAIN sessions /\ GoalsHold(sessions[id])
                /\ task[id].pc \in {"evaluated", "synthesizing", "done"}) =>
                 /\ sessions'[id].currentIteration = sessions[id].currentIteration
                 /\ events'[id]["iterationStarted"] = events[id]["iterationStarted"]
                 /\ task'[id].pc \in {task[id].pc, "synthesizing", "done"}
          /\ (task[id].pc = "synthesizing" /\ task'[id].pc = "done"
                /\ thrown'[id] = thrown[id]) =>
                 /\ sessions'[id].status = "completed"
                 /\ Len(events'[id]["sessionCompleted"])
                      = Len(events[id]["sessionCompleted"]) + 1]_vars

\* the loop left an iteration for the synthesis on satisfied goals, with room
\* under every ceiling and with questions pending
C33_Witness ==
    \E id \in DOMAIN sessions :
        /\ task[id].pc = "synthesizing"
        /\ task[id].goalsSatisfied
        /\ sessions[id].status = "synthesizing"
        /\ GoalsHold(sessions[id])
        /\ CeilingsHaveRoom(sessions[id])
        /\ sessions[id].memory.pendingQuestions # <<>>

\* the stored entities the given one matches: same name but for case, same type
MatchesOf(entities, entity) ==
    { i \in 1..Len(entities) :
        /\ ToLowerCase(entities[i].name) = ToLowerCase(entity.name)
        /\ entities[i].type = entity.type }

\* (c * n + d) / (n + 1) for the confidences c and d
WeightedMean(c, n, d) ==
    Ratio(c.num * n * d.den + d.num * c.den, c.den * d.den * (n + 1))

SameEnds(r, q) ==
    /\ r.sourceEntityId = q.sourceEntityId
    /\ r.targetEntityId = q.targetEntityId
    /\ r.relationType = q.relationType

\* the call stores its relations in this step
StoresRelations(c) ==
    integ[c].pc = "entitiesStored" /\ integ'[c].pc = "relationsStored"

\* C35: the graph never holds two relations with the same (sourceEntityId,
\* targetEntityId, relationType); storing a relation that matches a stored one
\* adds no record, sets the stored strength to min(strength + newStrength * 0.3,
\* 1.0), appends the document id to its evidence and leaves its confidence, and
\* the relation returned to the caller is the stored record.
C35_RelationUpsert ==
    [][\A c \in Calls :
          StoresRelations(c) =>
              LET given == integ[c].relations
                  old == graph.relations
                  new == graph'.relations
              IN  /\ \A i, j \in 1..Len(new) : SameEnds(new[i], new[j]) => i = j
                  /\ \A k \in 1..Len(given) :
                        \A i \in 1..Len(old) :
                            (SameEnds(old[i], given[k])
                               /\ \A l \in 1..Len(given) : SameEnds(given[l], given[k]) => l = k)
                            => /\ Len(new) = Len(old)
                                   + Cardinality({ l \in 1..Len(given) :
                                       \A m \in 1..Len(old) : ~SameEnds(old[m], given[l]) })
                               /\ new[i].strength
                                    = Min(old[i].strength + (given[k].strength * 3) \div 10, 100)
                               /\ new[i].strength <= 100
                               /\ new[i].evidence = Append(old[i].evidence, integ[c].document.id)
                               /\ new[i].confidence = old[i].confidence
                  /\ \A k \in 1..Len(integ'[c].storedRelations) :
                        \E i \in 1..Len(new) : new[i] = integ'[c].storedRelations[k]]_vars

\* a claim that is false stays false over every step
FalseIsFinal ==
    [][\A i \in 1..Len(graph.claims) :
          graph.claims[i].verificationStatus = "false"
              => graph'.claims[i].verificationStatus = "false"]_vars

\* C36: the status of a claim can flap: under repeated addEvidence calls it goes
\* from verified to false and later back to verified, because each update
\* applies the thresholds with no hysteresis (a verified claim whose new
\* confidence is below 0.3 becomes false, a false claim whose new confidence is
\* above 0.8 becomes verified).
C36_StatusFlaps ==
    [][EvidenceStep =>
          \A i \in 1..Len(graph.claims) :
              LET old == graph.claims[i]
                  new == graph'.claims[i]
              IN  new # old =>
                    /\ (old.verificationStatus = "verified" /\ Below(new.confidence, 3))
                          => new.verificationStatus = "false"
                    /\ (old.verificationStatus = "false" /\ Above(new.confidence, 8))
                          => new.verificationStatus = "verified"]_vars

IsPrefix(a, b) == Len(a) <= Len(b) /\ SubSeq(b, 1, Len(a)) = a

FactsOf(id) == sessions[id].memory.discoveredFacts

\* no two facts of a session have the same id
C37_FactIdsDistinct ==
    \A id \in DOMAIN sessions :
        \A i, j \in 1..Len(FactsOf(id)) :
            FactsOf(id)[i].id = FactsOf(id)[j].id => i = j

\* every step leaves the facts of a session in their places, unchanged
C37_FactsKept ==
    \A id \in DOMAIN sessions :
        /\ id \in DOMAIN sessions'
        /\ IsPrefix(FactsOf(id), sessions'[id].memory.discoveredFacts)

\* C37: facts are append-only within a session: no step removes, replaces or
\* reorders an element of discoveredFacts, the id of a stored fact never
\* changes, and no two facts of one session have the same id.
C37_FactsAppendOnly == []C37_FactIdsDistinct /\ [][C37_FactsKept]_vars

\* a session holds facts of two iterations
C37_Witness ==
    \E id \in DOMAIN sessions :
        \E i, j \in 1..Len(FactsOf(id)) :
            /\ FactsOf(id)[i].id[2] = 1
            /\ FactsOf(id)[j].id[2] = 2
            /\ FactsOf(id)[i].id[3] = FactsOf(id)[j].id[3]

\* the number of terminal events emitted for a session
TerminalEvents(id) ==
    Len(events[id]["sessionCompleted"]) + Len(events[id]["sessionFailed"])
      + Len(events[id]["sessionStopped"])

\* C38: for each session at most one terminal event is ever emitted:
\* sessionCompleted, sessionFailed and sessionStopped exclude one another and
\* none of them is emitted twice, however the stopSession calls interleave
\* with the research loop.
C38_OneTerminalEvent == \A id \in SessionIds : TerminalEvents(id) <= 1

EntityIdsStored == { graph.entities[i].id : i \in 1..Len(graph.entities) }

\* no integrateDocument call is between its storing steps
NoneStoring ==
    \A c \in Calls : integ[c].pc \in {"idle", "entities", "relations", "claims", "done"}

\* C39: after any sequence of integrateDocument calls the graph is
\* referentially closed: the sourceEntityId and the targetEntityId of every
\* stored relation and every entity id listed by a stored claim is the id of an
\* entity of the graph, also when the extracted entity was merged into a stored
\* entity with another id.
C39_ReferentiallyClosed ==
    NoneStoring =>
        /\ \A i \in 1..Len(graph.relations) :
               /\ graph.relations[i].sourceEntityId \in EntityIdsStored
               /\ graph.relations[i].targetEntityId \in EntityIdsStored
        /\ \A i \in 1..Len(graph.claims) :
               \A e \in Range(graph.claims[i].entities) : e \in EntityIdsStored

\* an iteration of the session starts in this step
IterationStarts(id) ==
    Len(events'[id]["iterationStarted"]) > Len(events[id]["iterationStarted"])

============================================================================
